---- MODULE Spec2Model ----
(***************************************************************************)
(* Model of the Buildkite log parser and Parquet query engine               *)
(* (package buildkitelogs): the byte scanner, the ANSI stripper, the group  *)
(* tracking Parser, the streaming iterator Parser.All, the batching export  *)
(* entry points, the read-all and streaming Parquet readers and the group   *)
(* pattern filter.  Strings are sequences of byte values.                   *)
(***************************************************************************)
EXTENDS Integers, Sequences, FiniteSets, TLC

\* ---------------------------------------------------------------- bytes
ESC == 27
BEL == 7
LBRACKET == 91
SEMICOLON == 59
PLUS == 43
MINUS == 45
TILDE == 126
DIGIT0 == 48
DIGIT9 == 57
UPPER_A == 65
UPPER_Z == 90
LOWER_a == 97
LOWER_z == 122

\* "_bk;t=" : the marker that follows ESC in the timestamp introducer
OSCMarker == <<95, 98, 107, 59, 116, 61>>

\* "<no group>"
NoGroupName == <<60, 110, 111, 32, 103, 114, 111, 117, 112, 62>>

\* ---------------------------------------------------------------- bounds
\* longest timestamp field (bytes between introducer and BEL) that is enumerated
MaxField == 3
\* number of Parser.ParseLine calls made on one Parser
MaxCalls == 3
\* number of lines of an input stream handed to Parser.All
MaxLines == 3
\* number of full batches an export run goes through
MaxBatches == 2
\* number of rows of an enumerated Parquet file
MaxRows == 3
\* number of pairs of the sequence handed to FilterByGroupIter
MaxPairs == 3

\* ---------------------------------------------------------------- helpers
Min(S) == CHOOSE x \in S : \A y \in S : x <= y

HasPrefix(s, prefix) ==
    /\ Len(s) >= Len(prefix)
    /\ SubSeq(s, 1, Len(prefix)) = prefix

\* s[from..] with a 1-based index, the Go slice data[from-1:]
Tail_(s, from) == SubSeq(s, from, Len(s))

IsDigit(b) == b >= DIGIT0 /\ b <= DIGIT9

\* ---------------------------------------------------------------- scanner.go
isANSIFinalChar(b) ==
    (b >= UPPER_A /\ b <= UPPER_Z) \/ (b >= LOWER_a /\ b <= LOWER_z)

\* variant: only the ESC byte is compared, the marker after it is not
hasOSCStart_EscOnly(data) ==
    IF Len(data) < 7 THEN FALSE
    ELSE data[1] = ESC

hasOSCStart(data) ==
    IF Len(data) < 7 THEN FALSE
    ELSE data[1] = ESC /\ HasPrefix(Tail_(data, 2), OSCMarker)

\* findBEL(data, start): start is the Go (0-based) offset; the result is the
\* Go offset of the first BEL at or after it, or -1
RECURSIVE findBELFrom(_, _)
findBELFrom(data, i) ==
    IF ~(i < Len(data)) THEN -1
    ELSE IF data[i + 1] = BEL THEN i
    ELSE findBELFrom(data, i + 1)

findBEL(data, start) == findBELFrom(data, start)

\* strconv.ParseInt(s, 10, 64): an optional sign followed by one or more
\* decimal digits.  ok = FALSE is the *NumError result.  Fields are at most
\* MaxField bytes long, so the value always lies inside the int64 range.
RECURSIVE ParseDigits(_, _, _)
ParseDigits(s, i, acc) ==
    IF i > Len(s) THEN [ok |-> TRUE, val |-> acc]
    ELSE IF ~IsDigit(s[i]) THEN [ok |-> FALSE, val |-> 0]
    ELSE ParseDigits(s, i + 1, acc * 10 + (s[i] - DIGIT0))

ParseInt(s) ==
    IF Len(s) = 0 THEN [ok |-> FALSE, val |-> 0]
    ELSE LET signed == s[1] = PLUS \/ s[1] = MINUS
             digits == IF signed THEN Tail_(s, 2) ELSE s
             un     == ParseDigits(digits, 1, 0)
         IN IF Len(digits) = 0 THEN [ok |-> FALSE, val |-> 0]
            ELSE IF ~un.ok THEN un
            ELSE [ok |-> TRUE, val |-> IF s[1] = MINUS THEN 0 - un.val ELSE un.val]

\* time.Time: the zero value time.Time{} or the instant time.Unix(0, ms*1e6),
\* kept as its millisecond count
ZeroTime == [zero |-> TRUE, ms |-> 0]
UnixMilliTime(ms) == [zero |-> FALSE, ms |-> ms]

NilEntry == [nil |-> TRUE]

\* error values: nil, the *strconv.NumError of a bad timestamp field, and the
\* read error reported by scanner.Err()
NilErr == "nil"
ErrSyntax == "strconv.ParseInt: invalid syntax"
ErrRead == "read error"

LogEntry(ts, content, raw, group) ==
    [Timestamp |-> ts, Content |-> content, RawLine |-> raw, Group |-> group]

Unframed(line) == [entry |-> LogEntry(ZeroTime, line, line, <<>>), err |-> NilErr]

\* the length below which a line is taken as unframed without looking at it
MinFramedLen == 10

ByteParserParseLine(line) ==
    IF Len(line) < MinFramedLen THEN Unframed(line)
    ELSE IF ~hasOSCStart(line) THEN Unframed(line)
    ELSE LET timestampStart == 7
             timestampEnd   == findBEL(line, timestampStart)
         IN IF timestampEnd = -1 THEN Unframed(line)
            ELSE LET timestampBytes == SubSeq(line, timestampStart + 1, timestampEnd)
                     parsed         == ParseInt(timestampBytes)
                 IN IF ~parsed.ok THEN [entry |-> NilEntry, err |-> ErrSyntax]
                    ELSE [entry |-> LogEntry(UnixMilliTime(parsed.val),
                                             Tail_(line, timestampEnd + 2),
                                             line, <<>>),
                          err |-> NilErr]

\* StripANSI: p is the 1-based position of the Go index i
RECURSIVE SkipToFinal(_, _)
SkipToFinal(data, p) ==
    IF p <= Len(data) /\ ~isANSIFinalChar(data[p]) THEN SkipToFinal(data, p + 1)
    ELSE p

\* variant: the lookahead window is one byte longer
RECURSIVE Lookahead_Window11(_, _, _)
Lookahead_Window11(data, p, j) ==
    IF j <= Len(data) /\ j < p + 11
    THEN IF IsDigit(data[j]) \/ data[j] = SEMICOLON THEN Lookahead_Window11(data, p, j + 1)
         ELSE IF isANSIFinalChar(data[j]) THEN [j |-> j, hasValidANSI |-> TRUE]
         ELSE [j |-> j, hasValidANSI |-> FALSE]
    ELSE [j |-> j, hasValidANSI |-> FALSE]

RECURSIVE Lookahead(_, _, _)
Lookahead(data, p, j) ==
    IF j <= Len(data) /\ j < p + 10
    THEN IF IsDigit(data[j]) \/ data[j] = SEMICOLON THEN Lookahead(data, p, j + 1)
         ELSE IF isANSIFinalChar(data[j]) THEN [j |-> j, hasValidANSI |-> TRUE]
         ELSE [j |-> j, hasValidANSI |-> FALSE]
    ELSE [j |-> j, hasValidANSI |-> FALSE]

RECURSIVE StripFrom(_, _, _)
StripFrom(data, p, result) ==
    IF p > Len(data) THEN result
    ELSE IF p < Len(data) /\ data[p] = ESC /\ data[p + 1] = LBRACKET
    THEN LET q == SkipToFinal(data, p + 2)
         IN StripFrom(data, IF q <= Len(data) THEN q + 1 ELSE q, result)
    ELSE IF p < Len(data) /\ data[p] = LBRACKET
    THEN LET la == Lookahead(data, p, p + 1)
         IN IF la.hasValidANSI THEN StripFrom(data, la.j + 1, result)
            ELSE StripFrom(data, p + 1, Append(result, data[p]))
    ELSE StripFrom(data, p + 1, Append(result, data[p]))

StripANSI(content) == StripFrom(content, 1, <<>>)

\* ---------------------------------------------------------------- parser.go
CleanContent(entry) == StripANSI(entry.Content)

HasTimestamp(entry) == ~entry.Timestamp.zero

GroupMarkers == { <<TILDE, TILDE, TILDE>>, <<MINUS, MINUS, MINUS>>, <<PLUS, PLUS, PLUS>> }

IsGroup(entry) ==
    LET content == CleanContent(entry)
    IN \E m \in GroupMarkers : HasPrefix(content, m)

\* variant: the header's raw content, ANSI codes included, becomes the group
NextGroup_RawContent(cur, entry) ==
    IF IsGroup(entry) THEN entry.Content ELSE cur

\* Parser.ParseLine lines 47-50: the group a record is stamped with, which is
\* also the parser's new current group
NextGroup(cur, entry) ==
    IF IsGroup(entry) THEN CleanContent(entry) ELSE cur

\* variant: a failing call forgets the current group
ParserParseLine_ResetOnError(cur, ln) ==
    LET r == ByteParserParseLine(ln)
    IN IF r.err # NilErr THEN [entry |-> NilEntry, err |-> r.err, currentGroup |-> <<>>]
       ELSE LET g == NextGroup(cur, r.entry)
            IN [entry |-> [r.entry EXCEPT !.Group = g], err |-> NilErr,
                currentGroup |-> g]

\* Parser.ParseLine: the returned pair and the parser's current group after it
ParserParseLine(cur, ln) ==
    LET r == ByteParserParseLine(ln)
    IN IF r.err # NilErr THEN [entry |-> NilEntry, err |-> r.err, currentGroup |-> cur]
       ELSE LET g == NextGroup(cur, r.entry)
            IN [entry |-> [r.entry EXCEPT !.Group = g], err |-> NilErr,
                currentGroup |-> g]

\* ---------------------------------------------------------------- state
VARIABLES
    line,          \* ByteParser.ParseLine: the argument
    lineResult,    \* ByteParser.ParseLine: the returned (entry, err)
    linePc,        \* "call" before the call, "done" after it
    currentGroup,  \* Parser.currentGroup
    history,       \* the Parser.ParseLine calls made so far: argument and result
    input,         \* Parser.All: the lines the scanner delivers, in order
    readFails,     \* Parser.All: scanner.Err() is non-nil after those lines
    pos,           \* Parser.All: lines scanned so far
    yielded,       \* Parser.All: the pairs handed to the consumer
    allPc,         \* Parser.All: "scan", "stopped" (yield returned false), "done"
    stoppedAfter,  \* Parser.All: pairs received when the consumer stopped, -1 if it has not
    expMode,       \* export: "seq2" (ExportSeq2ToParquet), "filter" (...WithFilter), "iterator"
    expInput,      \* export: the source, count entries then a clean end or an error
    expConsumed,   \* export: entries taken from the source so far
    batch,         \* export: the batch slice being filled
    written,       \* export: the batches handed to the store by pw.writer.Write, in order
    expPc,         \* export: "loop" or "done"
    expResult,     \* export: the error returned
    file,          \* reader: the Parquet file, its schema and rows
    rdBatchSize,   \* reader: batchSize of readParquetFileStreamingIter
    rdNext,        \* reader: rows the record reader has handed out
    rdRecord,      \* reader: rows of the record batch being converted
    rdRow,         \* reader: index i of the conversion loop over the batch
    rdMapped,      \* reader: columnIndices != nil
    rdYielded,     \* reader: the pairs handed to the consumer
    rdPc,          \* reader: "open", "read", "convert", "stopped", "done"
    rdLog,         \* reader: handles acquired and released, in order
    skStart,       \* row seek: startRow
    skNext,        \* row seek: position of the record reader in the file's rows
    skRecord,      \* row seek: rows of the record batch being converted
    skRow,         \* row seek: index i of the conversion loop over the batch
    skMapped,      \* row seek: columnIndices != nil
    skYielded,     \* row seek: the pairs handed to the consumer
    skPc,          \* row seek: "open", "read", "convert", "stopped", "done"
    skLog,         \* row seek: handles acquired and released, in order
    lgEntries,     \* ListGroups: the entries argument
    lgResult,      \* ListGroups: the returned summaries
    lgPc,          \* ListGroups: "call" before the call, "done" after it
    cnContent,     \* LogEntry methods: the entry's Content
    cnResult,      \* LogEntry methods: what the methods returned
    cnPc,          \* LogEntry methods: "call" before the calls, "done" after them
    fltInput,      \* filter: the pairs of the underlying sequence
    fltPattern,    \* filter: groupPattern
    fltPos,        \* filter: pairs taken from the underlying sequence
    fltYielded,    \* filter: the pairs handed to the consumer
    fltPc,         \* filter: "loop", "stopped", "done"
    expLog,        \* export: the output file and the store writer, opened and closed, in order
    expFilter,     \* export: filterFunc of ExportSeq2ToParquetWithFilter
    expFaults,     \* export: which of os.Create, NewParquetWriter and the Write calls fail
    recEntries,    \* createRecordFromEntries: the entries argument
    recRecord,     \* createRecordFromEntries: the rows of the record built
    recPc,         \* createRecordFromEntries: "call" before the call, "done" after it
    parsers,       \* two Parser values: each one's currentGroup and its ParseLine calls
    itInput,       \* LogIterator: the lines the scanner delivers, in order
    itFails,       \* LogIterator: scanner.Err() is non-nil after those lines
    itPos,         \* LogIterator: lines scanned so far
    itCurrent,     \* LogIterator.current
    itErr,         \* LogIterator.err
    itCalls,       \* LogIterator: what each Next call returned, with Err() and Entry() after it
    qOperation,    \* Query: the operation argument
    qPattern,      \* Query: the groupPattern argument
    qLog,          \* Query: what was done to the file, in order
    qResult,       \* Query: the returned error
    qPc,           \* Query: "call" before the call, "done" after it
    expFirst,      \* export: what the first of two exports of one input stored and returned
    allStreams     \* Parser.All: the streams this Parser has been given so far

lineVars   == <<line, lineResult, linePc>>
parserVars == <<currentGroup, history>>
allVars    == <<input, readFails, pos, yielded, allPc, stoppedAfter, allStreams>>
exportVars == <<expMode, expInput, expConsumed, batch, written, expPc, expResult,
               expLog, expFaults, expFilter>>
readVars   == <<file, rdBatchSize, rdNext, rdRecord, rdRow, rdMapped, rdYielded, rdPc, rdLog>>
filterVars == <<fltInput, fltPattern, fltPos, fltYielded, fltPc>>
seekVars   == <<skStart, skNext, skRecord, skRow, skMapped, skYielded, skPc, skLog>>
groupsVars == <<lgEntries, lgResult, lgPc>>
contentVars == <<cnContent, cnResult, cnPc>>
recordVars == <<recEntries, recRecord, recPc>>
twoVars    == <<parsers>>
iterVars   == <<itInput, itFails, itPos, itCurrent, itErr, itCalls>>
queryVars  == <<qOperation, qPattern, qLog, qResult, qPc>>
pairVars   == <<expFirst>>
moreVars   == <<recordVars, twoVars, iterVars, queryVars, pairVars>>
vars       == <<lineVars, parserVars, allVars, exportVars, readVars, filterVars,
               seekVars, groupsVars, contentVars, moreVars>>

NoResult == [entry |-> NilEntry, err |-> NilErr]

\* no call of the export fails: os.Create, NewParquetWriter, none of the Write calls
NoFaults == [create |-> FALSE, writer |-> FALSE, write |-> 0]

IdleLine   == line = <<>> /\ lineResult = NoResult /\ linePc = "idle"
IdleParser == currentGroup = <<>> /\ history = <<>>
IdleAll    == /\ input = <<>> /\ readFails = FALSE /\ pos = 0 /\ yielded = <<>>
              /\ allPc = "idle" /\ stoppedAfter = -1 /\ allStreams = 0
IdleExport == /\ expMode = "idle" /\ expInput = [count |-> 0, fails |-> FALSE]
              /\ expConsumed = 0 /\ batch = <<>> /\ written = <<>>
              /\ expPc = "idle" /\ expResult = NilErr
              /\ expLog = <<>> /\ expFaults = NoFaults /\ expFilter = "nil"
IdleRead   == /\ file = [exists |-> FALSE] /\ rdBatchSize = 0 /\ rdNext = 0
              /\ rdRecord = <<>> /\ rdRow = 0 /\ rdMapped = FALSE
              /\ rdYielded = <<>> /\ rdPc = "idle" /\ rdLog = <<>>
IdleFilter == /\ fltInput = <<>> /\ fltPattern = <<>> /\ fltPos = 0
              /\ fltYielded = <<>> /\ fltPc = "idle"
IdleSeek   == /\ skStart = 0 /\ skNext = 0 /\ skRecord = <<>> /\ skRow = 0
              /\ skMapped = FALSE /\ skYielded = <<>> /\ skPc = "idle" /\ skLog = <<>>
IdleGroups == lgEntries = <<>> /\ lgResult = <<>> /\ lgPc = "idle"
IdleContent == cnContent = <<>> /\ cnResult = [called |-> FALSE] /\ cnPc = "idle"
IdleRecord == recEntries = <<>> /\ recRecord = <<>> /\ recPc = "idle"
IdleTwo    == parsers = <<>>
IdleIter   == /\ itInput = <<>> /\ itFails = FALSE /\ itPos = 0
              /\ itCurrent = NilEntry /\ itErr = NilErr /\ itCalls = <<>>
IdleQuery  == /\ qOperation = "idle" /\ qPattern = <<>> /\ qLog = <<>>
              /\ qResult = NilErr /\ qPc = "idle"
NoFirst    == [ran |-> FALSE]
IdlePair   == expFirst = NoFirst
IdleMore   == IdleRecord /\ IdleTwo /\ IdleIter /\ IdleQuery /\ IdlePair

\* ---------------------------------------------------------------- inputs
SeqsUpTo(S, n) == UNION { [1..k -> S] : k \in 0..n }

Introducer == <<ESC>> \o OSCMarker

\* line = prefix \o field \o terminator \o content
LinePrefixes ==
    { <<>>, Introducer,
      <<ESC, 95, 98, 107, 59, 120, 61>>,     \* ESC _bk;x=
      SubSeq(Introducer, 1, 6),              \* ESC _bk;t
      <<97>> \o Introducer }                 \* a ESC _bk;t=
FieldBytes == { DIGIT0, 49, MINUS, PLUS, 120 }
LineFields == SeqsUpTo(FieldBytes, MaxField)
LineTerminators == { <<>>, <<BEL>> }
LineContents ==
    { <<>>, <<97>>, <<97, 98>>, <<BEL>>, <<97, BEL, 98>>, <<TILDE, TILDE, TILDE, 97>> }
Lines ==
    { p \o f \o t \o c : p \in LinePrefixes, f \in LineFields,
                         t \in LineTerminators, c \in LineContents }

\* ---------------------------------------------------------------- ByteParser.ParseLine
InitLine ==
    /\ line \in Lines
    /\ lineResult = NoResult
    /\ linePc = "call"
    /\ IdleParser /\ IdleAll /\ IdleExport /\ IdleRead /\ IdleFilter
    /\ IdleSeek /\ IdleGroups /\ IdleContent /\ IdleMore

ParseLineStep ==
    /\ linePc = "call"
    /\ lineResult' = ByteParserParseLine(line)
    /\ linePc' = "done"
    /\ UNCHANGED <<line, parserVars, allVars, exportVars, readVars, filterVars,
                   seekVars, groupsVars, contentVars, moreVars>>

NextLine == ParseLineStep

SpecLine == InitLine /\ [][NextLine]_vars

\* ---------------------------------------------------------------- Parser.ParseLine
FrameOK  == Introducer \o <<49, BEL>>        \* ESC _bk;t=1 BEL
FrameBad == Introducer \o <<120, BEL>>       \* ESC _bk;t=x BEL
ParserContents ==
    { <<97>>,                                    \* a
      <<TILDE, TILDE, TILDE, 97>>,               \* ~~~a
      <<MINUS, MINUS, MINUS>>,                   \* ---
      <<ESC, LBRACKET, 109, PLUS, PLUS, PLUS>>,  \* ESC[m+++
      <<TILDE, LBRACKET, 48, 109, TILDE, TILDE>>,\* ~[0m~~
      <<TILDE, TILDE>> }                         \* ~~
ParserLines ==
    { f \o c : f \in { <<>>, FrameOK, FrameBad }, c \in ParserContents }

InitParser ==
    /\ currentGroup = <<>>
    /\ history = <<>>
    /\ IdleLine /\ IdleAll /\ IdleExport /\ IdleRead /\ IdleFilter
    /\ IdleSeek /\ IdleGroups /\ IdleContent /\ IdleMore

ParseLineCall ==
    /\ Len(history) < MaxCalls
    /\ \E ln \in ParserLines :
          LET r == ParserParseLine(currentGroup, ln)
          IN /\ currentGroup' = r.currentGroup
             /\ history' = Append(history, [line |-> ln, entry |-> r.entry, err |-> r.err])
    /\ UNCHANGED <<lineVars, allVars, exportVars, readVars, filterVars,
                   seekVars, groupsVars, contentVars, moreVars>>

NextParser == ParseLineCall

SpecParser == InitParser /\ [][NextParser]_vars

\* ---------------------------------------------------------------- frame shape
\* The shape of a line as the claims describe it, read off the bytes of the line.
StartsWithIntroducer(ln) == Len(ln) >= 7 /\ SubSeq(ln, 1, 7) = Introducer
BelsAfterIntroducer(ln) == { i \in 8..Len(ln) : ln[i] = BEL }
HasTerminator(ln) == StartsWithIntroducer(ln) /\ BelsAfterIntroducer(ln) # {}
FirstBel(ln) == Min(BelsAfterIntroducer(ln))
FieldOf(ln) == SubSeq(ln, 8, FirstBel(ln) - 1)
TrailingOf(ln) == SubSeq(ln, FirstBel(ln) + 1, Len(ln))

UnsignedPart(f) ==
    IF Len(f) > 0 /\ f[1] \in {PLUS, MINUS} THEN SubSeq(f, 2, Len(f)) ELSE f
IsBase10Integer(f) ==
    /\ Len(UnsignedPart(f)) > 0
    /\ \A i \in 1..Len(UnsignedPart(f)) : IsDigit(UnsignedPart(f)[i])
RECURSIVE DigitsValue(_)
DigitsValue(d) ==
    IF Len(d) = 0 THEN 0
    ELSE 10 * DigitsValue(SubSeq(d, 1, Len(d) - 1)) + (d[Len(d)] - DIGIT0)
DecimalValue(f) ==
    IF Len(f) > 0 /\ f[1] = MINUS THEN 0 - DigitsValue(UnsignedPart(f))
    ELSE DigitsValue(UnsignedPart(f))

\* C2: every line made of the introducer, a base-10 integer, a BEL and any
\* trailing bytes, whatever its length, parses without error to a record whose
\* timestamp is exactly that millisecond value and whose content is exactly the
\* bytes after the first BEL.
C2_WellFormedFrameRecovered ==
    (linePc = "done" /\ HasTerminator(line) /\ IsBase10Integer(FieldOf(line)))
        => /\ lineResult.err = NilErr
           /\ lineResult.entry # NilEntry
           /\ HasTimestamp(lineResult.entry)
           /\ lineResult.entry.Timestamp.ms = DecimalValue(FieldOf(line))
           /\ lineResult.entry.Content = TrailingOf(line)

\* C3: every line that starts with the introducer and has a BEL after it,
\* whatever its length, whose field between them is not a base-10 integer
\* (the empty field included) gives an error and no record.
C3_MalformedFrameIsError ==
    (linePc = "done" /\ HasTerminator(line) /\ ~IsBase10Integer(FieldOf(line)))
        => /\ lineResult.err # NilErr
           /\ lineResult.entry = NilEntry

\* C4: a line that does not start with the introducer, or starts with it but
\* has no BEL after it, is not an error: the record has no timestamp and its
\* content is the whole line.
C4_UnframedLineIsContent ==
    (linePc = "done" /\ ~HasTerminator(line))
        => /\ lineResult.err = NilErr
           /\ lineResult.entry # NilEntry
           /\ ~HasTimestamp(lineResult.entry)
           /\ lineResult.entry.Content = line

\* a line of at least the minimum framed length that starts with the
\* introducer, has no BEL, and was returned whole
C4_Witness ==
    /\ linePc = "done"
    /\ StartsWithIntroducer(line)
    /\ BelsAfterIntroducer(line) = {}
    /\ Len(line) >= MinFramedLen
    /\ lineResult.err = NilErr
    /\ lineResult.entry.Content = line

\* ---------------------------------------------------------------- group tracking
IsHeaderContent(c) == \E m \in GroupMarkers : HasPrefix(c, m)
Parsed(i) == history[i].err = NilErr
IsHeaderCall(i) == Parsed(i) /\ IsHeaderContent(StripANSI(history[i].entry.Content))
HeadersBefore(i) == { j \in 1..(i - 1) : IsHeaderCall(j) }
Max(S) == CHOOSE x \in S : \A y \in S : x >= y

\* C1: after any sequence of ParseLine calls on one Parser, a header line's
\* Group is its own ANSI-stripped content, and every later non-header line's
\* Group is the ANSI-stripped content of the nearest preceding header.
C1_GroupTracking ==
    \A i \in 1..Len(history) :
        Parsed(i) =>
            IF IsHeaderCall(i)
            THEN history[i].entry.Group = StripANSI(history[i].entry.Content)
            ELSE HeadersBefore(i) # {} =>
                   history[i].entry.Group =
                       StripANSI(history[Max(HeadersBefore(i))].entry.Content)

\* a header whose cleaned content differs from its content, a line that
\* inherits it, then a new header
C1_Witness ==
    /\ Len(history) >= 3
    /\ IsHeaderCall(1)
    /\ history[1].entry.Content # StripANSI(history[1].entry.Content)
    /\ Parsed(2) /\ ~IsHeaderCall(2)
    /\ history[2].entry.Group = StripANSI(history[1].entry.Content)
    /\ IsHeaderCall(3)
    /\ history[3].entry.Group # history[2].entry.Group

\* ---------------------------------------------------------------- Parser.All
AllLines ==
    { <<97>>,                                              \* a
      FrameOK \o <<TILDE, TILDE, TILDE, 97>>,              \* framed ~~~a
      FrameBad \o <<97>>,                                  \* malformed frame
      <<MINUS, MINUS, MINUS>>,                             \* ---
      FrameOK \o <<ESC, LBRACKET, 109, PLUS, PLUS, PLUS>> }\* framed ESC[m+++

Pair(entry, err) == [entry |-> entry, err |-> err]

\* variant: a line that fails to parse is skipped instead of being yielded
AllYield_SkipErrors(ys, r) ==
    IF r.err # NilErr THEN ys ELSE Append(ys, Pair(r.entry, r.err))

\* parser.go line 77: the pair of the line just parsed is handed to the consumer
AllYield(ys, r) == Append(ys, Pair(r.entry, r.err))

\* variant: the loop ends after yielding a parse error
AllAfterYield_AbortOnError(cont, err) ==
    IF ~cont THEN "stopped" ELSE IF err # NilErr THEN "done" ELSE "scan"

\* variant: the value returned by yield is ignored
AllAfterYield_IgnoreStop(cont, err) == "scan"

\* parser.go lines 77-83: the loop goes on unless yield returned false; a parse
\* error does not end it
AllAfterYield(cont, err) == IF cont THEN "scan" ELSE "stopped"

InitAll ==
    /\ input \in SeqsUpTo(AllLines, MaxLines)
    /\ readFails \in BOOLEAN
    /\ pos = 0
    /\ yielded = <<>>
    /\ allPc = "scan"
    /\ stoppedAfter = -1
    /\ allStreams = 1
    /\ currentGroup = <<>>
    /\ history = <<>>
    /\ IdleLine /\ IdleExport /\ IdleRead /\ IdleFilter
    /\ IdleSeek /\ IdleGroups /\ IdleContent /\ IdleMore

\* one turn of the loop: scanner.Scan() delivers a line, ParseLine, yield
AllScanLine ==
    /\ allPc = "scan"
    /\ pos < Len(input)
    /\ LET ln == input[pos + 1]
           r  == ParserParseLine(currentGroup, ln)
       IN /\ currentGroup' = r.currentGroup
          /\ history' = Append(history, [line |-> ln, entry |-> r.entry, err |-> r.err])
          /\ pos' = pos + 1
          /\ yielded' = AllYield(yielded, r)
          /\ \E cont \in BOOLEAN :
                /\ allPc' = AllAfterYield(cont, r.err)
                /\ stoppedAfter' = IF stoppedAfter # -1 THEN stoppedAfter
                                   ELSE IF cont THEN -1 ELSE Len(yielded')
    /\ UNCHANGED <<lineVars, input, readFails, allStreams, exportVars, readVars, filterVars,
                   seekVars, groupsVars, contentVars, moreVars>>

\* scanner.Scan() returns false: the scanner error, if any, is yielded and All returns
AllScanEnd ==
    /\ allPc = "scan"
    /\ pos = Len(input)
    /\ allPc' = "done"
    /\ IF readFails
       THEN /\ yielded' = Append(yielded, Pair(NilEntry, ErrRead))
            /\ \E cont \in BOOLEAN :
                  stoppedAfter' = IF stoppedAfter # -1 THEN stoppedAfter
                                  ELSE IF cont THEN -1 ELSE Len(yielded')
       ELSE UNCHANGED <<yielded, stoppedAfter>>
    /\ UNCHANGED <<lineVars, parserVars, input, readFails, pos, allStreams, exportVars, readVars, filterVars,
                   seekVars, groupsVars, contentVars, moreVars>>

NextAll == AllScanLine \/ AllScanEnd

SpecAll == InitAll /\ [][NextAll]_vars

\* the group of the nearest header among the first k lines of the input,
\* empty when there is none
LineIsHeader(ln) ==
    /\ ByteParserParseLine(ln).err = NilErr
    /\ IsHeaderContent(StripANSI(ByteParserParseLine(ln).entry.Content))
HeaderLinesUpTo(k) == { j \in 1..k : LineIsHeader(input[j]) }
GroupAfterLines(k) ==
    IF HeaderLinesUpTo(k) = {} THEN <<>>
    ELSE StripANSI(ByteParserParseLine(input[Max(HeaderLinesUpTo(k))]).entry.Content)

\* the pair that parsing the i-th line of the input gives
ExpectedPair(i) ==
    LET r == ByteParserParseLine(input[i])
    IN IF r.err # NilErr THEN Pair(NilEntry, r.err)
       ELSE Pair([r.entry EXCEPT !.Group = GroupAfterLines(i)], NilErr)

\* C5: over n lines with no read failure Parser.All yields exactly n pairs, the
\* i-th being the result of parsing the i-th line, in input order.
C5_OnePairPerLineInOrder ==
    ~readFails =>
        /\ Len(yielded) <= Len(input)
        /\ \A i \in 1..Len(yielded) : yielded[i] = ExpectedPair(i)
        /\ (allPc = "done" /\ stoppedAfter = -1) => Len(yielded) = Len(input)

C5_Witness ==
    /\ ~readFails
    /\ allPc = "done"
    /\ stoppedAfter = -1
    /\ Len(input) = 3
    /\ Len(yielded) = 3
    /\ yielded[2].err # NilErr
    /\ yielded[3].err = NilErr

\* C6: a malformed line does not end Parser.All: its error pair is yielded and,
\* while the consumer keeps pulling, every later line is parsed and yielded in
\* order.
C6_ParseErrorDoesNotAbort ==
    /\ \A i \in 1..Len(history) :
          history[i].err # NilErr =>
              /\ Len(yielded) >= i
              /\ yielded[i] = Pair(NilEntry, history[i].err)
    /\ (allPc = "done" /\ stoppedAfter = -1) =>
          /\ pos = Len(input)
          /\ Len(history) = Len(input)
          /\ \A j \in 1..Len(input) : yielded[j] = ExpectedPair(j)

C6_Witness ==
    /\ allPc = "done"
    /\ stoppedAfter = -1
    /\ Len(input) >= 2
    /\ yielded[1].err = ErrSyntax
    /\ yielded[2].err = NilErr
    /\ yielded[2].entry.Content = <<97>>

\* C7 as stated: when the consumer stops after K pairs, exactly K lines have
\* been parsed, nothing more is parsed or yielded, and the current group is the
\* one after the first K lines.
C7_StopAfterKParsesK ==
    stoppedAfter # -1 =>
        /\ Len(yielded) = stoppedAfter
        /\ Len(history) = stoppedAfter
        /\ currentGroup = GroupAfterLines(stoppedAfter)

\* the number of the K received pairs that are line pairs: all of them, except
\* the final pair that reports the reader's failure
LinePairs(k) ==
    IF k > 0 /\ yielded[k].err = ErrRead THEN k - 1 ELSE k

\* C7 amended: when the consumer stops after K pairs, the lines parsed are
\* exactly the ones behind those pairs (K of them, K-1 when the K-th pair is the
\* reader's failure), nothing more is parsed or yielded, and the current group
\* is the one after those lines.
C7_StopParsesOnlyYieldedLines ==
    stoppedAfter # -1 =>
        /\ Len(yielded) = stoppedAfter
        /\ Len(history) = LinePairs(stoppedAfter)
        /\ \A i \in 1..Len(history) : history[i].line = input[i]
        /\ currentGroup = GroupAfterLines(LinePairs(stoppedAfter))

\* the consumer stopped after two of three lines, the third being a header
\* that would have changed the group
C7_Witness ==
    /\ allPc = "stopped"
    /\ stoppedAfter = 2
    /\ Len(input) = 3
    /\ LineIsHeader(input[1])
    /\ LineIsHeader(input[3])
    /\ GroupAfterLines(3) # GroupAfterLines(2)
    /\ currentGroup = GroupAfterLines(2)
    /\ Len(history) = 2

\* ---------------------------------------------------------------- parquet.go export
\* the handles of the exports and of the streaming iterators, and what happens to them
Acquire(h) == [op |-> "acquire", h |-> h]
Release(h) == [op |-> "release", h |-> h]
Acquired(handles) == [i \in 1..Len(handles) |-> Acquire(handles[i])]

\* const batchSize = 1000 of ExportIteratorToParquet and ExportSeq2ToParquet
batchSize == 1000

ErrIteration == "error during iteration"

\* An entry handed to the exporter is a *LogEntry; it is named by its position
\* in the source, 1..count.
ExportSizes ==
    {0, 1, 2} \cup { k * batchSize + d : k \in 1..MaxBatches, d \in {-1, 0, 1} }

\* ParquetWriter.WriteBatch: an empty batch is not written, any other becomes
\* one record handed to pw.writer.Write
WriteBatch(store, entries) ==
    IF Len(entries) = 0 THEN store ELSE Append(store, entries)

\* variant: the batch is flushed one entry too late
BatchFull_OffByOne(b) == Len(b) > batchSize

\* "if len(batch) >= batchSize"
BatchFull(b) == Len(b) >= batchSize

\* variant: the batch slice is not reset after it was written
AfterWrite_NoReset(b) == b

\* "batch = batch[:0]"
AfterWrite(b) == <<>>

\* "if len(batch) > 0 { writer.WriteBatch(batch) }"
FinalFlush(store, b) == IF Len(b) > 0 THEN WriteBatch(store, b) ELSE store

ErrCreate == "os.Create failed"
ErrWriter == "failed to create Parquet writer"
ErrWrite == "write failed"

\* variant: the deferred calls run in the order of their defer statements
Deferred_InOrder(handles) ==
    [i \in 1..Len(handles) |-> Release(handles[i])]

\* the deferred Close calls of an export function, run at its return: the
\* last deferred first
Deferred(handles) ==
    [i \in 1..Len(handles) |-> Release(handles[Len(handles) - i + 1])]

\* the handles whose Close has been deferred so far
Opened(log) == [i \in 1..Len(log) |-> log[i].h]

\* filterFunc applied to the k-th entry of the sequence; "nil" is the nil
\* function, which filters nothing out
Accepts(filter, k) ==
    \/ filter \in {"nil", "all"}
    \/ filter = "even" /\ k % 2 = 0

\* the entry taken from the source now goes into the batch
Passes == expMode # "filter" \/ Accepts(expFilter, expConsumed + 1)

\* the next call of pw.writer.Write is the one that fails
WriteFails == expFaults.write = Len(written) + 1

\* the state after os.Create and NewParquetWriter have succeeded
InitExport ==
    /\ expMode \in {"seq2", "iterator"}
    /\ expInput \in [count : ExportSizes, fails : BOOLEAN]
    /\ expConsumed = 0
    /\ batch = <<>>
    /\ written = <<>>
    /\ expPc = "loop"
    /\ expResult = NilErr
    /\ expLog = Acquired(<<"file", "writer">>)
    /\ expFaults = NoFaults
    /\ expFilter = "nil"
    /\ IdleLine /\ IdleParser /\ IdleAll /\ IdleRead /\ IdleFilter
    /\ IdleSeek /\ IdleGroups /\ IdleContent /\ IdleMore

\* the loop body: append the entry, write the batch when it is full
TakeEntry ==
    LET b == Append(batch, expConsumed + 1)
    IN /\ expConsumed' = expConsumed + 1
       /\ IF BatchFull(b)
          THEN /\ written' = WriteBatch(written, b)
               /\ batch' = AfterWrite(b)
          ELSE /\ written' = written
               /\ batch' = b

\* ExportSeq2ToParquet, ExportSeq2ToParquetWithFilter: the sequence yields
\* (entry, nil), the filter lets it pass and the write, if one is due, succeeds
ExportSeq2Entry ==
    /\ expMode \in {"seq2", "filter"} /\ expPc = "loop"
    /\ expConsumed < expInput.count
    /\ Passes
    /\ ~(BatchFull(Append(batch, expConsumed + 1)) /\ WriteFails)
    /\ TakeEntry
    /\ UNCHANGED <<expMode, expInput, expPc, expResult, expLog, expFaults, expFilter>>
    /\ UNCHANGED <<lineVars, parserVars, allVars, readVars, filterVars,
                   seekVars, groupsVars, contentVars, moreVars>>

\* ExportSeq2ToParquet: the sequence yields (nil, err); the function returns at once
ExportSeq2Error ==
    /\ expMode \in {"seq2", "filter"} /\ expPc = "loop"
    /\ expConsumed = expInput.count /\ expInput.fails
    /\ expResult' = ErrIteration
    /\ expPc' = "done"
    /\ expLog' = expLog \o Deferred(Opened(expLog))
    /\ UNCHANGED <<expMode, expInput, expConsumed, batch, written, expFaults, expFilter>>
    /\ UNCHANGED <<lineVars, parserVars, allVars, readVars, filterVars,
                   seekVars, groupsVars, contentVars, moreVars>>

\* ExportSeq2ToParquet: the sequence ends; the final batch is written
ExportSeq2End ==
    /\ expMode \in {"seq2", "filter"} /\ expPc = "loop"
    /\ expConsumed = expInput.count /\ ~expInput.fails
    /\ ~(Len(batch) > 0 /\ WriteFails)
    /\ written' = FinalFlush(written, batch)
    /\ expResult' = NilErr
    /\ expPc' = "done"
    /\ expLog' = expLog \o Deferred(Opened(expLog))
    /\ UNCHANGED <<expMode, expInput, expConsumed, batch, expFaults, expFilter>>
    /\ UNCHANGED <<lineVars, parserVars, allVars, readVars, filterVars,
                   seekVars, groupsVars, contentVars, moreVars>>

\* ExportIteratorToParquet: iterator.Next() is true
ExportIteratorEntry ==
    /\ expMode = "iterator" /\ expPc = "loop"
    /\ expConsumed < expInput.count
    /\ ~(BatchFull(Append(batch, expConsumed + 1)) /\ WriteFails)
    /\ TakeEntry
    /\ UNCHANGED <<expMode, expInput, expPc, expResult, expLog, expFaults, expFilter>>
    /\ UNCHANGED <<lineVars, parserVars, allVars, readVars, filterVars,
                   seekVars, groupsVars, contentVars, moreVars>>

\* ExportIteratorToParquet: iterator.Next() is false; the final batch is
\* written and iterator.Err() returned
ExportIteratorEnd ==
    /\ expMode = "iterator" /\ expPc = "loop"
    /\ expConsumed = expInput.count
    /\ ~(Len(batch) > 0 /\ WriteFails)
    /\ written' = FinalFlush(written, batch)
    /\ expResult' = IF expInput.fails THEN ErrSyntax ELSE NilErr
    /\ expPc' = "done"
    /\ expLog' = expLog \o Deferred(Opened(expLog))
    /\ UNCHANGED <<expMode, expInput, expConsumed, batch, expFaults, expFilter>>
    /\ UNCHANGED <<lineVars, parserVars, allVars, readVars, filterVars,
                   seekVars, groupsVars, contentVars, moreVars>>

NextExport ==
    \/ ExportSeq2Entry \/ ExportSeq2Error \/ ExportSeq2End
    \/ ExportIteratorEntry \/ ExportIteratorEnd

SpecExport == InitExport /\ [][NextExport]_vars

RECURSIVE SumLen(_, _)
SumLen(batches, k) == IF k = 0 THEN 0 ELSE Len(batches[k]) + SumLen(batches, k - 1)

\* C8: for an error-free input of n records both exporters hand every record
\* to the store exactly once and in input order, in batches of exactly 1000
\* followed by one final batch of n mod 1000 records written only when it is
\* not empty; nothing is lost or duplicated at a batch boundary.
C8_BatchesOfThousandInOrder ==
    ~expInput.fails =>
        /\ SumLen(written, Len(written)) + (IF expPc = "done" THEN 0 ELSE Len(batch))
             = expConsumed
        /\ Len(written) = expConsumed \div 1000
           + (IF expPc = "done" /\ expConsumed % 1000 > 0 THEN 1 ELSE 0)
        /\ expPc = "done" =>
              /\ expResult = NilErr
              /\ expConsumed = expInput.count
              /\ \A b \in 1..(expInput.count \div 1000) : Len(written[b]) = 1000
              /\ expInput.count % 1000 > 0 =>
                    Len(written[Len(written)]) = expInput.count % 1000
              /\ \A b \in 1..Len(written) : \A j \in 1..Len(written[b]) :
                    written[b][j] = (b - 1) * 1000 + j

\* a finished error-free export of more than one full batch and a remainder
C8_Witness ==
    /\ expPc = "done"
    /\ ~expInput.fails
    /\ expInput.count > 1000
    /\ expInput.count % 1000 = 1
    /\ Len(written) = expInput.count \div 1000 + 1
    /\ Len(written[Len(written)]) = 1

\* ---------------------------------------------------------------- query.go readers
\* array.NewTableReader(table, 1000) of convertTableToEntries
TableChunk == 1000
\* batch size readParquetFileIter passes to readParquetFileStreamingIter
DefaultBatchSize == 5000

ErrOpen == "failed to open file"
ErrColumns == "required columns 'timestamp' and 'content' not found"
ErrTimestampType == "unexpected timestamp column type"
ErrContentType == "unexpected content column type"

\* a cell of an Arrow column: null, or a value
Cell(v) == [null |-> FALSE, v |-> v]
NullCell(v) == [null |-> TRUE, v |-> v]

ParquetLogEntry(ts, content, group, hasTime, isCmd, isGroup, isProg, rawSize) ==
    [Timestamp |-> ts, Content |-> content, Group |-> group, HasTime |-> hasTime,
     IsCommand |-> isCmd, IsGroup |-> isGroup, IsProgress |-> isProg,
     RawLineSize |-> rawSize]

\* ParquetLogEntry{}
ZeroParquetEntry == ParquetLogEntry(0, <<>>, <<>>, FALSE, FALSE, FALSE, FALSE, 0)

AllColumns == { "timestamp", "content", "group", "has_timestamp", "is_command",
                "is_group", "is_progress", "raw_line_size" }

SchemaOf(cols, tsType, contentType, groupType, boolType, sizeType) ==
    [cols |-> cols, tsType |-> tsType, contentType |-> contentType,
     groupType |-> groupType, boolType |-> boolType, sizeType |-> sizeType]

Schemas ==
    { SchemaOf(AllColumns, "int64", "string", "string", "bool", "int32"),
      SchemaOf(AllColumns, "int64", "binary", "binary", "bool", "int32"),
      SchemaOf({"timestamp", "content"}, "int64", "string", "string", "bool", "int32"),
      SchemaOf(AllColumns \ {"timestamp"}, "int64", "string", "string", "bool", "int32"),
      SchemaOf(AllColumns, "timestamp[ms]", "string", "string", "bool", "int32"),
      SchemaOf(AllColumns, "int64", "int64", "string", "bool", "int32"),
      SchemaOf(AllColumns, "int64", "string", "int64", "int8", "int64") }

RowOf(ts, content, group, hasTime, isCmd, isGroup, isProg, rawSize) ==
    [timestamp |-> ts, content |-> content, group |-> group, has_timestamp |-> hasTime,
     is_command |-> isCmd, is_group |-> isGroup, is_progress |-> isProg,
     raw_line_size |-> rawSize]

RowValues ==
    { RowOf(Cell(5), Cell(<<97>>), Cell(<<TILDE, TILDE, TILDE>>), Cell(TRUE),
            Cell(FALSE), Cell(TRUE), Cell(FALSE), Cell(4)),
      RowOf(NullCell(0), Cell(<<98>>), NullCell(<<>>), Cell(FALSE),
            Cell(TRUE), NullCell(FALSE), Cell(TRUE), NullCell(0)),
      RowOf(Cell(7), NullCell(<<>>), Cell(<<>>), NullCell(FALSE),
            NullCell(FALSE), Cell(FALSE), NullCell(FALSE), Cell(2)) }

\* what is wrong with a stored file, as the store's calls report it:
\* "header": file.NewParquetReader fails; "arrow": pqarrow.NewFileReader fails;
\* "records": GetRecordReader fails; "seek": recordReader.SeekToRow fails;
\* "read": the data holding the last row cannot be decoded
FileFaults == { "header", "arrow", "records", "seek", "read" }

GoodSchema == SchemaOf(AllColumns, "int64", "string", "string", "bool", "int32")

\* a file of more rows than one chunk of the table reader
BigFile ==
    [exists |-> TRUE, fault |-> "none", schema |-> GoodSchema,
     rows |-> [i \in 1..(TableChunk + 1) |->
                  RowOf(Cell(i), Cell(<<97>>), Cell(<<>>), Cell(TRUE),
                        Cell(FALSE), Cell(FALSE), Cell(FALSE), Cell(1))]]

NoFile == [exists |-> FALSE]

FilesUpTo(n) ==
    { NoFile }
    \cup { [exists |-> TRUE, fault |-> "none", schema |-> sc, rows |-> rs] :
              sc \in Schemas, rs \in SeqsUpTo(RowValues, n) }
    \cup { [exists |-> TRUE, fault |-> ft, schema |-> GoodSchema, rows |-> rs] :
              ft \in FileFaults, rs \in SeqsUpTo(RowValues, n) }

Files == { BigFile } \cup FilesUpTo(MaxRows)

\* the row conversion of convertRecordToEntries and of
\* convertRecordToEntriesIterStreaming (the two loops are the same text)
ConvertRow(sc, row) ==
    IF ~row.timestamp.null /\ sc.tsType # "int64"
    THEN [entry |-> ZeroParquetEntry, err |-> ErrTimestampType]
    ELSE IF ~row.content.null /\ sc.contentType \notin {"string", "binary"}
    THEN [entry |-> ZeroParquetEntry, err |-> ErrContentType]
    ELSE LET optBool(col, cell) ==
                 IF col \in sc.cols /\ ~cell.null /\ sc.boolType = "bool"
                 THEN cell.v ELSE FALSE
         IN [entry |-> ParquetLogEntry(
                 IF row.timestamp.null THEN 0 ELSE row.timestamp.v,
                 IF row.content.null THEN <<>> ELSE row.content.v,
                 IF "group" \in sc.cols /\ ~row.group.null
                    /\ sc.groupType \in {"string", "binary"}
                 THEN row.group.v ELSE <<>>,
                 optBool("has_timestamp", row.has_timestamp),
                 optBool("is_command", row.is_command),
                 optBool("is_group", row.is_group),
                 optBool("is_progress", row.is_progress),
                 IF "raw_line_size" \in sc.cols /\ ~row.raw_line_size.null
                    /\ sc.sizeType = "int32"
                 THEN row.raw_line_size.v ELSE 0),
             err |-> NilErr]

\* mapColumns / the index lookup of convertTableToEntries
RequiredColumnsPresent(sc) == "timestamp" \in sc.cols /\ "content" \in sc.cols

\* convertRecordToEntries: the entries of all rows of the record, or the error
\* of the first row that fails to convert
convertRecordToEntries(sc, record) ==
    LET failing == { i \in 1..Len(record) : ConvertRow(sc, record[i]).err # NilErr }
    IN IF failing # {}
       THEN [entries |-> <<>>, err |-> ConvertRow(sc, record[Min(failing)]).err]
       ELSE [entries |-> [i \in 1..Len(record) |-> ConvertRow(sc, record[i]).entry],
             err |-> NilErr]

\* convertTableToEntries: the loop over the table reader's records
RECURSIVE tableReaderLoop(_, _, _, _)
tableReaderLoop(sc, rows, from, entries) ==
    IF from > Len(rows) THEN [entries |-> entries, err |-> NilErr]
    ELSE LET to == IF from + TableChunk - 1 < Len(rows) THEN from + TableChunk - 1
                   ELSE Len(rows)
             batchEntries == convertRecordToEntries(sc, SubSeq(rows, from, to))
         IN IF batchEntries.err # NilErr THEN [entries |-> <<>>, err |-> batchEntries.err]
            ELSE tableReaderLoop(sc, rows, to + 1, entries \o batchEntries.entries)

convertTableToEntries(f) ==
    IF ~RequiredColumnsPresent(f.schema) THEN [entries |-> <<>>, err |-> ErrColumns]
    ELSE tableReaderLoop(f.schema, f.rows, 1, <<>>)

ErrParquet == "failed to open parquet file"
ErrArrowReader == "failed to create arrow reader"
ErrRecordReader == "failed to create record reader"
ErrReadRecord == "error reading record"
ErrReadTable == "failed to read table"

\* readParquetFile, the body of ReadEntries
readParquetFile(f) ==
    IF ~f.exists THEN [entries |-> <<>>, err |-> ErrOpen]
    ELSE IF f.fault = "header" THEN [entries |-> <<>>, err |-> ErrParquet]
    ELSE IF f.fault = "arrow" THEN [entries |-> <<>>, err |-> ErrArrowReader]
    ELSE IF f.fault = "records" \/ (f.fault = "read" /\ Len(f.rows) > 0)
    THEN [entries |-> <<>>, err |-> ErrReadTable]
    ELSE convertTableToEntries(f)

\* variant: the streaming copy of the conversion leaves the group out
StreamingRow_NoGroup(sc, row) ==
    LET r == ConvertRow(sc, row)
    IN IF r.err # NilErr THEN r ELSE [r EXCEPT !.entry.Group = <<>>]

\* one turn of the row loop of convertRecordToEntriesIterStreaming
StreamingRow(sc, row) == ConvertRow(sc, row)

\* variant: the cleanup functions run in the order they were appended
ReleaseAll_InOrder(resources) ==
    [i \in 1..Len(resources) |-> Release(resources[i])]

\* variant: the cleanup loop stops before the first function appended
ReleaseAll_KeepFirst(resources) ==
    [i \in 1..(Len(resources) - 1) |-> Release(resources[Len(resources) - i + 1])]

\* the deferred loop over resources, last appended first
ReleaseAll(resources) ==
    [i \in 1..Len(resources) |-> Release(resources[Len(resources) - i + 1])]

\* variant: the error of file.NewParquetReader is not looked at
OpenStages_HeaderErrorIgnored(f) ==
    IF ~f.exists THEN [resources |-> <<>>, err |-> ErrOpen]
    ELSE IF f.fault = "arrow"
    THEN [resources |-> <<"osFile", "pf">>, err |-> ErrArrowReader]
    ELSE IF f.fault = "records"
    THEN [resources |-> <<"osFile", "pf">>, err |-> ErrRecordReader]
    ELSE [resources |-> <<"osFile", "pf", "recordReader">>, err |-> NilErr]

\* os.Open .. GetRecordReader of readParquetFileStreamingIter: the cleanup
\* functions appended, and the error of the stage that failed
OpenStages(f) ==
    IF ~f.exists THEN [resources |-> <<>>, err |-> ErrOpen]
    ELSE IF f.fault = "header" THEN [resources |-> <<"osFile">>, err |-> ErrParquet]
    ELSE IF f.fault = "arrow"
    THEN [resources |-> <<"osFile", "pf">>, err |-> ErrArrowReader]
    ELSE IF f.fault = "records"
    THEN [resources |-> <<"osFile", "pf">>, err |-> ErrRecordReader]
    ELSE [resources |-> <<"osFile", "pf", "recordReader">>, err |-> NilErr]

\* resources once the record reader exists
StreamResources == <<"osFile", "pf", "recordReader">>

\* variant: the record reader decodes two batches for each Read()
RecordEnd_TwoBatches(f, next, size) ==
    IF next + 2 * size < Len(f.rows) THEN next + 2 * size ELSE Len(f.rows)

\* the row after the last row of the record recordReader.Read() returns next
RecordEnd(f, next, size) ==
    IF next + size < Len(f.rows) THEN next + size ELSE Len(f.rows)

\* recordReader.Read() returns an error other than io.EOF
ReadFails(f, next, size) ==
    /\ f.fault = "read"
    /\ next < Len(f.rows)
    /\ RecordEnd(f, next, size) = Len(f.rows)

InitRead ==
    /\ file \in Files
    /\ rdBatchSize \in {1, 2, DefaultBatchSize}
    /\ rdNext = 0
    /\ rdRecord = <<>>
    /\ rdRow = 0
    /\ rdMapped = FALSE
    /\ rdYielded = <<>>
    /\ rdPc = "open"
    /\ rdLog = <<>>
    /\ IdleLine /\ IdleParser /\ IdleAll /\ IdleExport /\ IdleFilter
    /\ IdleSeek /\ IdleGroups /\ IdleContent /\ IdleMore

Others_Read == <<lineVars, parserVars, allVars, exportVars, filterVars,
                 seekVars, groupsVars, contentVars, moreVars>>

\* os.Open .. GetRecordReader: a failure is yielded and the iterator returns
RdOpen ==
    /\ rdPc = "open"
    /\ LET o == OpenStages(file)
       IN IF o.err = NilErr
          THEN /\ rdPc' = "read"
               /\ rdLog' = rdLog \o Acquired(o.resources)
               /\ UNCHANGED rdYielded
          ELSE /\ rdYielded' = Append(rdYielded, Pair(ZeroParquetEntry, o.err))
               /\ rdPc' = "done"
               /\ rdLog' = rdLog \o Acquired(o.resources) \o ReleaseAll(o.resources)
    /\ UNCHANGED <<file, rdBatchSize, rdNext, rdRecord, rdRow, rdMapped>>
    /\ UNCHANGED Others_Read

\* recordReader.Read() returns io.EOF
RdReadEOF ==
    /\ rdPc = "read"
    /\ rdNext = Len(file.rows)
    /\ rdPc' = "done"
    /\ rdLog' = rdLog \o ReleaseAll(StreamResources)
    /\ UNCHANGED <<file, rdBatchSize, rdNext, rdRecord, rdRow, rdMapped, rdYielded>>
    /\ UNCHANGED Others_Read

\* recordReader.Read() returns another error: it is yielded and the iterator returns
RdReadError ==
    /\ rdPc = "read"
    /\ ReadFails(file, rdNext, rdBatchSize)
    /\ rdYielded' = Append(rdYielded, Pair(ZeroParquetEntry, ErrReadRecord))
    /\ rdPc' = "done"
    /\ rdLog' = rdLog \o ReleaseAll(StreamResources)
    /\ UNCHANGED <<file, rdBatchSize, rdNext, rdRecord, rdRow, rdMapped>>
    /\ UNCHANGED Others_Read

\* recordReader.Read() returns the next record of at most batchSize rows;
\* the columns are mapped on the first one
RdReadRecord ==
    /\ rdPc = "read"
    /\ rdNext < Len(file.rows)
    /\ ~ReadFails(file, rdNext, rdBatchSize)
    /\ LET to == RecordEnd(file, rdNext, rdBatchSize)
       IN /\ rdNext' = to
          /\ rdRecord' = SubSeq(file.rows, rdNext + 1, to)
    /\ rdRow' = 0
    /\ IF ~rdMapped /\ ~RequiredColumnsPresent(file.schema)
       THEN /\ rdYielded' = Append(rdYielded, Pair(ZeroParquetEntry, ErrColumns))
            /\ rdPc' = "done"
            /\ rdLog' = rdLog \o <<Acquire("record"), Release("record")>>
                              \o ReleaseAll(StreamResources)
            /\ UNCHANGED rdMapped
       ELSE /\ rdMapped' = TRUE
            /\ rdPc' = "convert"
            /\ rdLog' = Append(rdLog, Acquire("record"))
            /\ UNCHANGED rdYielded
    /\ UNCHANGED <<file, rdBatchSize>>
    /\ UNCHANGED Others_Read

\* the row loop: row i is converted and yielded.  After an error pair the
\* inner iterator returns, and the batch loop goes on with the next record
\* unless the consumer stopped.
RdConvertRow ==
    /\ rdPc = "convert"
    /\ rdRow < Len(rdRecord)
    /\ LET r == StreamingRow(file.schema, rdRecord[rdRow + 1])
       IN /\ rdYielded' = Append(rdYielded, Pair(r.entry, r.err))
          /\ \E cont \in BOOLEAN :
                IF ~cont
                THEN /\ rdPc' = "stopped"
                     /\ rdLog' = Append(rdLog, Release("record"))
                                    \o ReleaseAll(StreamResources)
                ELSE IF r.err # NilErr
                THEN /\ rdPc' = "read"
                     /\ rdLog' = Append(rdLog, Release("record"))
                ELSE /\ rdPc' = "convert"
                     /\ UNCHANGED rdLog
    /\ rdRow' = rdRow + 1
    /\ UNCHANGED <<file, rdBatchSize, rdNext, rdRecord, rdMapped>>
    /\ UNCHANGED Others_Read

\* the row loop ends: record.Release(), next turn of the batch loop
RdRecordDone ==
    /\ rdPc = "convert"
    /\ rdRow = Len(rdRecord)
    /\ rdPc' = "read"
    /\ rdLog' = Append(rdLog, Release("record"))
    /\ UNCHANGED <<file, rdBatchSize, rdNext, rdRecord, rdRow, rdMapped, rdYielded>>
    /\ UNCHANGED Others_Read

NextRead ==
    RdOpen \/ RdReadEOF \/ RdReadError \/ RdReadRecord \/ RdConvertRow \/ RdRecordDone

SpecRead == InitRead /\ [][NextRead]_vars

\* the records the consumer collected: the entries of the pairs without error
RecordsOf(pairs) ==
    LET ok == SelectSeq(pairs, LAMBDA pr : pr.err = NilErr)
    IN [k \in 1..Len(ok) |-> ok[k].entry]

\* C9 as stated: the records collected from a full scan run to completion are
\* the sequence ReadEntries returns for the same file.
C9_ScanEqualsReadAll ==
    rdPc = "done" => RecordsOf(rdYielded) = readParquetFile(file).entries

\* C9 amended: for a file that ReadEntries reads without error, the full scan
\* run to completion yields no error and exactly the records ReadEntries
\* returns, in the same order.
C9_ScanEqualsSuccessfulReadAll ==
    (rdPc = "done" /\ readParquetFile(file).err = NilErr) =>
        /\ \A k \in 1..Len(rdYielded) : rdYielded[k].err = NilErr
        /\ RecordsOf(rdYielded) = readParquetFile(file).entries

\* a scan of several batches over a file with a group column, finished, equal
\* to the read-all result
C9_Witness ==
    /\ rdPc = "done"
    /\ file.exists
    /\ readParquetFile(file).err = NilErr
    /\ Len(file.rows) = 3
    /\ rdBatchSize = 2
    /\ Len(rdYielded) = 3
    /\ rdYielded[1].entry.Group # <<>>
    /\ rdYielded[2].entry.Timestamp = 0
    /\ RecordsOf(rdYielded) = readParquetFile(file).entries

\* ---------------------------------------------------------------- FilterByGroupIter
\* strings.ToLower on ASCII bytes
ToLower(str) ==
    [i \in 1..Len(str) |->
        IF str[i] >= UPPER_A /\ str[i] <= UPPER_Z THEN str[i] + 32 ELSE str[i]]

\* strings.Contains
Contains(str, substr) ==
    \E k \in 0..(Len(str) - Len(substr)) : SubSeq(str, k + 1, k + Len(substr)) = substr

\* variant: the pattern is compared as given, without lower-casing it
FilterMatches_PatternAsGiven(entry, groupPattern) ==
    LET entryGroup == IF entry.Group = <<>> THEN NoGroupName ELSE entry.Group
    IN Contains(ToLower(entryGroup), groupPattern)

\* variant: an empty group is compared as the empty string
FilterMatches_EmptyGroupAsIs(entry, groupPattern) ==
    Contains(ToLower(entry.Group), ToLower(groupPattern))

\* query.go lines 844-849
FilterMatches(entry, groupPattern) ==
    LET entryGroup == IF entry.Group = <<>> THEN NoGroupName ELSE entry.Group
    IN Contains(ToLower(entryGroup), ToLower(groupPattern))

FilterEntry(group, content) ==
    ParquetLogEntry(5, content, group, TRUE, FALSE, FALSE, FALSE, 1)

FilterGroups == { <<>>, <<65, 98>>, <<98>> }              \* "", "Ab", "b"
FilterPatterns ==
    { <<>>, <<97>>, <<66>>, <<65, 66>>, <<78, 79>>, <<120>> }  \* "", a, B, AB, NO, x
FilterPairs ==
    { Pair(FilterEntry(g, c), NilErr) : g \in FilterGroups, c \in { <<97>>, <<98>> } }
    \cup { Pair(ZeroParquetEntry, ErrTimestampType) }

InitFilter ==
    /\ fltInput \in SeqsUpTo(FilterPairs, MaxPairs)
    /\ fltPattern \in FilterPatterns
    /\ fltPos = 0
    /\ fltYielded = <<>>
    /\ fltPc = "loop"
    /\ IdleLine /\ IdleParser /\ IdleAll /\ IdleExport /\ IdleRead
    /\ IdleSeek /\ IdleGroups /\ IdleContent /\ IdleMore

Others_Filter == <<lineVars, parserVars, allVars, exportVars, readVars,
                   seekVars, groupsVars, contentVars, moreVars>>

\* the underlying sequence yields an error: it is passed on
FltError ==
    /\ fltPc = "loop"
    /\ fltPos < Len(fltInput)
    /\ fltInput[fltPos + 1].err # NilErr
    /\ fltPos' = fltPos + 1
    /\ fltYielded' = Append(fltYielded, Pair(ZeroParquetEntry, fltInput[fltPos + 1].err))
    /\ \E cont \in BOOLEAN : fltPc' = IF cont THEN "loop" ELSE "stopped"
    /\ UNCHANGED <<fltInput, fltPattern>>
    /\ UNCHANGED Others_Filter

\* the underlying sequence yields an entry whose group matches: it is yielded
FltMatch ==
    /\ fltPc = "loop"
    /\ fltPos < Len(fltInput)
    /\ fltInput[fltPos + 1].err = NilErr
    /\ FilterMatches(fltInput[fltPos + 1].entry, fltPattern)
    /\ fltPos' = fltPos + 1
    /\ fltYielded' = Append(fltYielded, Pair(fltInput[fltPos + 1].entry, NilErr))
    /\ \E cont \in BOOLEAN : fltPc' = IF cont THEN "loop" ELSE "stopped"
    /\ UNCHANGED <<fltInput, fltPattern>>
    /\ UNCHANGED Others_Filter

\* the underlying sequence yields an entry whose group does not match
FltSkip ==
    /\ fltPc = "loop"
    /\ fltPos < Len(fltInput)
    /\ fltInput[fltPos + 1].err = NilErr
    /\ ~FilterMatches(fltInput[fltPos + 1].entry, fltPattern)
    /\ fltPos' = fltPos + 1
    /\ UNCHANGED <<fltInput, fltPattern, fltYielded, fltPc>>
    /\ UNCHANGED Others_Filter

\* the underlying sequence ends
FltEnd ==
    /\ fltPc = "loop"
    /\ fltPos = Len(fltInput)
    /\ fltPc' = "done"
    /\ UNCHANGED <<fltInput, fltPattern, fltPos, fltYielded>>
    /\ UNCHANGED Others_Filter

NextFilter == FltError \/ FltMatch \/ FltSkip \/ FltEnd

SpecFilter == InitFilter /\ [][NextFilter]_vars

\* the group a record is matched under, and the match the claim describes
GroupForMatching(e) == IF Len(e.Group) = 0 THEN NoGroupName ELSE e.Group
Lowered(b) == IF b \in UPPER_A..UPPER_Z THEN b + (LOWER_a - UPPER_A) ELSE b
IsSubstringAt(str, sub, k) ==
    /\ k + Len(sub) <= Len(str)
    /\ \A i \in 1..Len(sub) : Lowered(str[k + i]) = Lowered(sub[i])
PatternInGroup(e, pattern) ==
    \E k \in 0..Len(GroupForMatching(e)) : IsSubstringAt(GroupForMatching(e), pattern, k)

\* C10: FilterByGroupIter yields a record iff the lower-cased pattern is a
\* substring of the record's lower-cased group (an empty group counting as
\* "<no group>"); the yielded records are exactly the matching ones, in the
\* order of the underlying sequence.
C10_FilterYieldsExactlyMatches ==
    /\ RecordsOf(fltYielded) =
          RecordsOf(SelectSeq(SubSeq(fltInput, 1, fltPos),
                              LAMBDA pr : pr.err = NilErr
                                          /\ PatternInGroup(pr.entry, fltPattern)))
    /\ fltPc = "done" => fltPos = Len(fltInput)

\* a finished filter run: records 1 and 3 have no group and are matched under
\* the "<no group>" name by an upper-case pattern, record 2 is left out
C10_Witness ==
    /\ fltPc = "done"
    /\ fltPattern = <<78, 79>>
    /\ Len(fltInput) = 3
    /\ fltInput[1].err = NilErr /\ fltInput[1].entry.Group = <<>>
    /\ fltInput[2].err = NilErr /\ fltInput[2].entry.Group # <<>>
    /\ fltInput[3].err = NilErr /\ fltInput[3].entry.Group = <<>>
    /\ fltInput[1].entry # fltInput[3].entry
    /\ fltYielded = <<fltInput[1], fltInput[3]>>

\* ---------------------------------------------------------------- readParquetFileFromRowIter
\* bound on the rows of the files of the row-seek runs
MaxSeekRows == 2

\* BatchSize of the Arrow reader readParquetFileFromRowIter creates
SeekBatchSize == 5000

ErrBounds == "start row is beyond file bounds"
ErrSeek == "failed to seek to row"

\* variant: only a start row past the row count is refused
BeyondBounds_PastOnly(startRow, totalRows) == startRow > totalRows

\* variant: a negative start row is refused as well
BeyondBounds_NegativeRefused(startRow, totalRows) ==
    startRow < 0 \/ startRow >= totalRows

\* the check of startRow against pf.MetaData().GetNumRows()
BeyondBounds(startRow, totalRows) == startRow >= totalRows

\* variant: the reader is positioned one row too far
SeekPosition_OneTooFar(startRow) == startRow + 1

\* where the record reader stands before the first Read(): SeekToRow(startRow)
\* is only called for a positive startRow
SeekPosition(startRow) == IF startRow > 0 THEN startRow ELSE 0

\* os.Open .. recordReader.SeekToRow of readParquetFileFromRowIter: the
\* cleanup functions appended, and the error of the stage that failed
SeekOpenStages(f, startRow) ==
    IF ~f.exists THEN [resources |-> <<>>, err |-> ErrOpen]
    ELSE IF f.fault = "header" THEN [resources |-> <<"osFile">>, err |-> ErrParquet]
    ELSE IF BeyondBounds(startRow, Len(f.rows))
    THEN [resources |-> <<"osFile", "pf">>, err |-> ErrBounds]
    ELSE IF f.fault = "arrow"
    THEN [resources |-> <<"osFile", "pf">>, err |-> ErrArrowReader]
    ELSE IF f.fault = "records"
    THEN [resources |-> <<"osFile", "pf">>, err |-> ErrRecordReader]
    ELSE IF startRow > 0 /\ f.fault = "seek"
    THEN [resources |-> <<"osFile", "pf", "recordReader">>, err |-> ErrSeek]
    ELSE [resources |-> <<"osFile", "pf", "recordReader">>, err |-> NilErr]

StartRows == (0 - 1)..(MaxSeekRows + 1)

\* a row seek and a full scan of the same file, each with its own consumer
InitSeek ==
    /\ file \in FilesUpTo(MaxSeekRows)
    /\ rdBatchSize = DefaultBatchSize
    /\ rdNext = 0 /\ rdRecord = <<>> /\ rdRow = 0 /\ rdMapped = FALSE
    /\ rdYielded = <<>> /\ rdPc = "open" /\ rdLog = <<>>
    /\ skStart \in StartRows
    /\ skNext = 0 /\ skRecord = <<>> /\ skRow = 0 /\ skMapped = FALSE
    /\ skYielded = <<>> /\ skPc = "open" /\ skLog = <<>>
    /\ IdleLine /\ IdleParser /\ IdleAll /\ IdleExport /\ IdleFilter
    /\ IdleGroups /\ IdleContent /\ IdleMore

Others_Seek == <<lineVars, parserVars, allVars, exportVars, filterVars,
                 readVars, groupsVars, contentVars, moreVars>>

\* os.Open .. SeekToRow: a failure is yielded and the iterator returns
SkOpen ==
    /\ skPc = "open"
    /\ LET o == SeekOpenStages(file, skStart)
       IN IF o.err = NilErr
          THEN /\ skPc' = "read"
               /\ skNext' = SeekPosition(skStart)
               /\ skLog' = skLog \o Acquired(o.resources)
               /\ UNCHANGED skYielded
          ELSE /\ skYielded' = Append(skYielded, Pair(ZeroParquetEntry, o.err))
               /\ skPc' = "done"
               /\ skLog' = skLog \o Acquired(o.resources) \o ReleaseAll(o.resources)
               /\ UNCHANGED skNext
    /\ UNCHANGED <<skStart, skRecord, skRow, skMapped>>
    /\ UNCHANGED Others_Seek

\* recordReader.Read() returns io.EOF
SkReadEOF ==
    /\ skPc = "read"
    /\ skNext >= Len(file.rows)
    /\ skPc' = "done"
    /\ skLog' = skLog \o ReleaseAll(StreamResources)
    /\ UNCHANGED <<skStart, skNext, skRecord, skRow, skMapped, skYielded>>
    /\ UNCHANGED Others_Seek

\* recordReader.Read() returns another error: it is yielded and the iterator returns
SkReadError ==
    /\ skPc = "read"
    /\ ReadFails(file, skNext, SeekBatchSize)
    /\ skYielded' = Append(skYielded, Pair(ZeroParquetEntry, ErrReadRecord))
    /\ skPc' = "done"
    /\ skLog' = skLog \o ReleaseAll(StreamResources)
    /\ UNCHANGED <<skStart, skNext, skRecord, skRow, skMapped>>
    /\ UNCHANGED Others_Seek

\* recordReader.Read() returns the next record; the columns are mapped on the
\* first one
SkReadRecord ==
    /\ skPc = "read"
    /\ skNext < Len(file.rows)
    /\ ~ReadFails(file, skNext, SeekBatchSize)
    /\ LET to == RecordEnd(file, skNext, SeekBatchSize)
       IN /\ skNext' = to
          /\ skRecord' = SubSeq(file.rows, skNext + 1, to)
    /\ skRow' = 0
    /\ IF ~skMapped /\ ~RequiredColumnsPresent(file.schema)
       THEN /\ skYielded' = Append(skYielded, Pair(ZeroParquetEntry, ErrColumns))
            /\ skPc' = "done"
            /\ skLog' = skLog \o <<Acquire("record"), Release("record")>>
                              \o ReleaseAll(StreamResources)
            /\ UNCHANGED skMapped
       ELSE /\ skMapped' = TRUE
            /\ skPc' = "convert"
            /\ skLog' = Append(skLog, Acquire("record"))
            /\ UNCHANGED skYielded
    /\ UNCHANGED skStart
    /\ UNCHANGED Others_Seek

\* the row loop: row i is converted and yielded
SkConvertRow ==
    /\ skPc = "convert"
    /\ skRow < Len(skRecord)
    /\ LET r == StreamingRow(file.schema, skRecord[skRow + 1])
       IN /\ skYielded' = Append(skYielded, Pair(r.entry, r.err))
          /\ \E cont \in BOOLEAN :
                IF ~cont
                THEN /\ skPc' = "stopped"
                     /\ skLog' = Append(skLog, Release("record"))
                                    \o ReleaseAll(StreamResources)
                ELSE IF r.err # NilErr
                THEN /\ skPc' = "read"
                     /\ skLog' = Append(skLog, Release("record"))
                ELSE /\ skPc' = "convert"
                     /\ UNCHANGED skLog
    /\ skRow' = skRow + 1
    /\ UNCHANGED <<skStart, skNext, skRecord, skMapped>>
    /\ UNCHANGED Others_Seek

\* the row loop ends: record.Release(), next turn of the batch loop
SkRecordDone ==
    /\ skPc = "convert"
    /\ skRow = Len(skRecord)
    /\ skPc' = "read"
    /\ skLog' = Append(skLog, Release("record"))
    /\ UNCHANGED <<skStart, skNext, skRecord, skRow, skMapped, skYielded>>
    /\ UNCHANGED Others_Seek

NextSeek ==
    \/ SkOpen \/ SkReadEOF \/ SkReadError \/ SkReadRecord \/ SkConvertRow \/ SkRecordDone
    \/ RdOpen \/ RdReadEOF \/ RdReadError \/ RdReadRecord \/ RdConvertRow \/ RdRecordDone

SpecSeek == InitSeek /\ [][NextSeek]_vars

\* the first n pairs of a sequence of pairs
FirstPairs(pairs, n) == SubSeq(pairs, 1, Min({n, Len(pairs)}))

\* a run that returned without being stopped has produced its whole sequence
Exhausted(pc) == pc = "done"

\* C11: for every stored file, a file with zero rows included, and every N,
\* the first N pairs of SeekToRow(0) are the first N pairs of the full scan of
\* the same file.
C11_SeekZeroEqualsScan ==
    (file.exists /\ skStart = 0) =>
        /\ \A n \in 0..(MaxSeekRows + 1) :
              (Len(skYielded) >= n /\ Len(rdYielded) >= n) =>
                  FirstPairs(skYielded, n) = FirstPairs(rdYielded, n)
        /\ Exhausted(rdPc) => Len(skYielded) <= Len(rdYielded)
        /\ Exhausted(skPc) => Len(rdYielded) <= Len(skYielded)

\* C11 amended: for every stored file with at least one row and every N, the
\* first N pairs of SeekToRow(0) are the first N pairs of the full scan of the
\* same file.
C11_SeekZeroEqualsScanOfNonEmptyFile ==
    (file.exists /\ Len(file.rows) >= 1 /\ skStart = 0) =>
        /\ \A n \in 0..(MaxSeekRows + 1) :
              (Len(skYielded) >= n /\ Len(rdYielded) >= n) =>
                  FirstPairs(skYielded, n) = FirstPairs(rdYielded, n)
        /\ Exhausted(rdPc) => Len(skYielded) <= Len(rdYielded)
        /\ Exhausted(skPc) => Len(rdYielded) <= Len(skYielded)

\* SeekToRow(0) and the full scan both ran to the end of a two-row file and
\* produced the same two records
C11_Witness ==
    /\ file.exists /\ file.fault = "none" /\ Len(file.rows) = 2
    /\ skStart = 0
    /\ skPc = "done" /\ rdPc = "done"
    /\ Len(skYielded) = 2
    /\ skYielded[1].err = NilErr /\ skYielded[2].err = NilErr
    /\ skYielded[1] # skYielded[2]
    /\ skYielded = rdYielded

\* C12: SeekToRow(R) with R at or past the file's row count yields exactly one
\* error pair and no record; the sequence is never empty.
C12_SeekPastEndIsOneError ==
    (file.exists /\ skStart >= Len(file.rows) /\ skPc # "open") =>
        /\ skPc = "done"
        /\ Len(skYielded) = 1
        /\ skYielded[1].err # NilErr
        /\ skYielded[1].entry = ZeroParquetEntry
        /\ file.fault # "header" => skYielded[1].err = ErrBounds

\* a seek to the row count of a readable two-row file has returned
C12_Witness ==
    /\ file.exists /\ file.fault = "none" /\ Len(file.rows) = 2
    /\ skStart = 2
    /\ skPc = "done"
    /\ skYielded = <<Pair(ZeroParquetEntry, ErrBounds)>>
    /\ skNext = 0

\* the handles the claim names: file, Parquet reader, record reader, batch
Handles == { "osFile", "pf", "recordReader", "record" }

\* how many times event e occurs among log[a..b]
CountOf(log, e, a, b) == Cardinality({ k \in a..b : log[k] = e })

\* acquisitions of h not yet released after the first i events
HeldAfter(log, h, i) ==
    CountOf(log, [op |-> "acquire", h |-> h], 1, i)
        - CountOf(log, [op |-> "release", h |-> h], 1, i)

\* a handle is released only while held, and not acquired again while held
ReleasedAtMostOnce(log) ==
    \A i \in 0..Len(log) : \A h \in Handles : HeldAfter(log, h, i) \in {0, 1}

\* at each release of h, nothing acquired after h is still held
ReleasedInReverseOrder(log) ==
    \A i \in 1..Len(log) :
        log[i].op = "release" =>
            LET acquisitions ==
                    { j \in 1..(i - 1) : log[j] = [op |-> "acquire", h |-> log[i].h] }
            IN /\ acquisitions # {}
               /\ \A g \in Handles \ {log[i].h} :
                     HeldAfter(log, g, i) <= HeldAfter(log, g, Max(acquisitions))

NothingHeld(log) == \A h \in Handles : HeldAfter(log, h, Len(log)) = 0

\* C13: whenever a full scan or a row seek ends, by exhaustion, by an error of
\* any stage or by the consumer stopping, every handle acquired so far has been
\* released exactly once, in reverse order of acquisition.
C13_HandlesReleasedInReverseOrder ==
    /\ ReleasedAtMostOnce(rdLog) /\ ReleasedInReverseOrder(rdLog)
    /\ ReleasedAtMostOnce(skLog) /\ ReleasedInReverseOrder(skLog)
    /\ rdPc \in {"done", "stopped"} => NothingHeld(rdLog)
    /\ skPc \in {"done", "stopped"} => NothingHeld(skLog)

\* a row seek stopped by its consumer in the middle of a batch, and a full scan
\* of the same file that ran to the end
C13_Witness ==
    /\ skPc = "stopped"
    /\ Len(skYielded) = 1 /\ Len(skRecord) = 2
    /\ skLog = << [op |-> "acquire", h |-> "osFile"], [op |-> "acquire", h |-> "pf"],
                  [op |-> "acquire", h |-> "recordReader"],
                  [op |-> "acquire", h |-> "record"],
                  [op |-> "release", h |-> "record"],
                  [op |-> "release", h |-> "recordReader"],
                  [op |-> "release", h |-> "pf"], [op |-> "release", h |-> "osFile"] >>
    /\ rdPc = "done"
    /\ rdLog = skLog

\* ---------------------------------------------------------------- early termination
\* the two streaming iterations: Parser.All over a line source, or the full
\* scan of a stored file
InitStream == InitAll \/ InitRead

NextStream == NextAll \/ NextRead

SpecStream == InitStream /\ [][NextStream]_vars

\* C14: stopping Parser.All or the full scan after K pairs never causes more
\* than K records' worth of reading: the source has not been read beyond the
\* K-th record.
C14_StopReadsNoMoreThanK ==
    /\ allPc = "stopped" => pos <= Len(yielded)
    /\ rdPc = "stopped" => rdNext <= Len(rdYielded)

\* the row of the file behind the last pair the full scan yielded
LastRowYielded == rdNext - Len(rdRecord) + rdRow

\* the last row of the batch of batchSize rows that holds row r
BatchEndOf(r) ==
    Min({ Len(file.rows), ((r - 1) \div rdBatchSize + 1) * rdBatchSize })

\* C14 amended: stopping Parser.All after K pairs leaves at most K lines
\* scanned; stopping the full scan after K pairs leaves the record reader at
\* the end of the batch that holds the row of the K-th pair, fewer than
\* batchSize rows beyond that row, and no later batch has been read.
C14_StopReadsNoFurtherBatch ==
    /\ allPc = "stopped" => pos <= Len(yielded)
    /\ rdPc = "stopped" =>
          /\ LastRowYielded \in 1..Len(file.rows)
          /\ rdYielded[Len(rdYielded)] =
                LET r == ConvertRow(file.schema, file.rows[LastRowYielded])
                IN Pair(r.entry, r.err)
          /\ rdNext = BatchEndOf(LastRowYielded)
          /\ rdNext - LastRowYielded < rdBatchSize

\* a full scan in batches of two rows, stopped after the first record of a
\* three-row file: the record reader has handed out two rows
C14_Witness ==
    /\ rdPc = "stopped"
    /\ file.exists /\ Len(file.rows) = 3
    /\ rdBatchSize = 2
    /\ Len(rdYielded) = 1 /\ rdYielded[1].err = NilErr
    /\ rdNext = 2

\* ---------------------------------------------------------------- ListGroups
\* bound on the length of the entries slice
MaxEntries == 3

\* time.Time.Before and time.Time.After on times made by time.Unix
Before(t, u) == t.ms < u.ms
After(t, u) == t.ms > u.ms

\* time.Unix(0, entry.Timestamp*int64(time.Millisecond))
EntryTime(entry) == UnixMilliTime(entry.Timestamp)

GroupNameOf(entry) == IF entry.Group = <<>> THEN NoGroupName ELSE entry.Group

\* variant: FirstSeen and LastSeen keep the time of the group's first entry
AddEntry_TimesOfFirstEntry(groupMap, entry) ==
    LET groupName == GroupNameOf(entry)
        info == IF groupName \in DOMAIN groupMap THEN groupMap[groupName]
                ELSE [Name |-> groupName, EntryCount |-> 0,
                      FirstSeen |-> EntryTime(entry), LastSeen |-> EntryTime(entry),
                      Commands |-> 0, Progress |-> 0]
        updated == [info EXCEPT
                       !.EntryCount = @ + 1,
                       !.Commands = IF entry.IsCommand THEN @ + 1 ELSE @,
                       !.Progress = IF entry.IsProgress THEN @ + 1 ELSE @]
    IN [n \in DOMAIN groupMap \cup {groupName} |->
           IF n = groupName THEN updated ELSE groupMap[n]]

\* variant: every entry counts as a command
AddEntry_CountsAllAsCommands(groupMap, entry) ==
    LET groupName == GroupNameOf(entry)
        info == IF groupName \in DOMAIN groupMap THEN groupMap[groupName]
                ELSE [Name |-> groupName, EntryCount |-> 0,
                      FirstSeen |-> EntryTime(entry), LastSeen |-> EntryTime(entry),
                      Commands |-> 0, Progress |-> 0]
        updated == [info EXCEPT
                       !.EntryCount = @ + 1,
                       !.FirstSeen = IF Before(EntryTime(entry), @)
                                     THEN EntryTime(entry) ELSE @,
                       !.LastSeen = IF After(EntryTime(entry), @)
                                    THEN EntryTime(entry) ELSE @,
                       !.Commands = @ + 1,
                       !.Progress = IF entry.IsProgress THEN @ + 1 ELSE @]
    IN [n \in DOMAIN groupMap \cup {groupName} |->
           IF n = groupName THEN updated ELSE groupMap[n]]

\* one turn of the loop over entries: groupMap after the entry
AddEntry(groupMap, entry) ==
    LET groupName == GroupNameOf(entry)
        info == IF groupName \in DOMAIN groupMap THEN groupMap[groupName]
                ELSE [Name |-> groupName, EntryCount |-> 0,
                      FirstSeen |-> EntryTime(entry), LastSeen |-> EntryTime(entry),
                      Commands |-> 0, Progress |-> 0]
        updated == [info EXCEPT
                       !.EntryCount = @ + 1,
                       !.FirstSeen = IF Before(EntryTime(entry), @)
                                     THEN EntryTime(entry) ELSE @,
                       !.LastSeen = IF After(EntryTime(entry), @)
                                    THEN EntryTime(entry) ELSE @,
                       !.Commands = IF entry.IsCommand THEN @ + 1 ELSE @,
                       !.Progress = IF entry.IsProgress THEN @ + 1 ELSE @]
    IN [n \in DOMAIN groupMap \cup {groupName} |->
           IF n = groupName THEN updated ELSE groupMap[n]]

\* groupMap after the first k entries
RECURSIVE GroupMapAfter(_, _)
GroupMapAfter(entries, k) ==
    IF k = 0 THEN [n \in {} |-> 0]
    ELSE AddEntry(GroupMapAfter(entries, k - 1), entries[k])

\* the orders of a set of summaries: the map is ranged over in any order
OrdersOf(S) ==
    { groups \in [1..Cardinality(S) -> S] :
         \A i, j \in 1..Cardinality(S) : i # j => groups[i] # groups[j] }

\* variant: the comparison is turned around
SortedByFirstSeen_Descending(groups) ==
    \A i, j \in 1..Len(groups) :
        i < j => ~Before(groups[i].FirstSeen, groups[j].FirstSeen)

\* what sort.Slice leaves: no element is Before one that precedes it
SortedByFirstSeen(groups) ==
    \A i, j \in 1..Len(groups) :
        i < j => ~Before(groups[j].FirstSeen, groups[i].FirstSeen)

\* the slices ListGroups can return for entries
ListGroups(entries) ==
    LET groupMap == GroupMapAfter(entries, Len(entries))
    IN { groups \in OrdersOf({ groupMap[n] : n \in DOMAIN groupMap }) :
            SortedByFirstSeen(groups) }

\* the entries of the input slices: millisecond timestamps 0 (flagged as
\* having no timestamp), 5 and 7 in each group, plain, command and progress
\* entries
SummaryEntries ==
    { ParquetLogEntry(e[1], <<LOWER_a>>, e[2], e[1] # 0, e[3], FALSE, e[4], 1) :
         e \in { <<0, <<>>, FALSE, FALSE>>,
                 <<5, <<>>, FALSE, TRUE>>,
                 <<7, <<>>, TRUE, FALSE>>,
                 <<5, <<>>, FALSE, FALSE>>,
                 <<0, <<TILDE, TILDE, TILDE>>, TRUE, FALSE>>,
                 <<5, <<TILDE, TILDE, TILDE>>, FALSE, FALSE>>,
                 <<7, <<TILDE, TILDE, TILDE>>, FALSE, TRUE>>,
                 <<0, <<MINUS, MINUS, MINUS, LOWER_a>>, FALSE, TRUE>>,
                 <<5, <<MINUS, MINUS, MINUS, LOWER_a>>, TRUE, TRUE>>,
                 <<7, <<MINUS, MINUS, MINUS, LOWER_a>>, FALSE, FALSE>> } }

InitGroups ==
    /\ lgEntries \in SeqsUpTo(SummaryEntries, MaxEntries)
    /\ lgResult = <<>>
    /\ lgPc = "call"
    /\ IdleLine /\ IdleParser /\ IdleAll /\ IdleExport /\ IdleRead /\ IdleFilter
    /\ IdleSeek /\ IdleContent /\ IdleMore

ListGroupsCall ==
    /\ lgPc = "call"
    /\ lgResult' \in ListGroups(lgEntries)
    /\ lgPc' = "done"
    /\ UNCHANGED lgEntries
    /\ UNCHANGED <<lineVars, parserVars, allVars, exportVars, readVars, filterVars,
                   seekVars, contentVars, moreVars>>

NextGroups == ListGroupsCall

SpecGroups == InitGroups /\ [][NextGroups]_vars

\* the distinct group values of the input, and the entries carrying one
GroupValues == { lgEntries[i].Group : i \in 1..Len(lgEntries) }
MembersOf(g) == { i \in 1..Len(lgEntries) : lgEntries[i].Group = g }
SummaryNameOf(g) == IF Len(g) = 0 THEN NoGroupName ELSE g
TimestampsOf(g) == { lgEntries[i].Timestamp : i \in MembersOf(g) }

C16_OrderedByFirstSeen ==
    lgPc = "done" =>
        \A k \in 1..(Len(lgResult) - 1) :
            lgResult[k].FirstSeen.ms <= lgResult[k + 1].FirstSeen.ms

\* three groups met in the order latest, earliest, middle come back in the
\* order of their first timestamps
C16_Witness ==
    /\ lgPc = "done"
    /\ Len(lgEntries) = 3 /\ Len(lgResult) = 3
    /\ lgEntries[1].Timestamp = 7 /\ lgEntries[2].Timestamp = 0
    /\ lgEntries[3].Timestamp = 5
    /\ lgResult[1].Name = SummaryNameOf(lgEntries[2].Group)
    /\ lgResult[2].Name = SummaryNameOf(lgEntries[3].Group)
    /\ lgResult[3].Name = SummaryNameOf(lgEntries[1].Group)

\* the orderings of the input slice
Reorderings(entries) ==
    { [i \in 1..Len(entries) |-> entries[p[i]]] :
         p \in { q \in [1..Len(entries) -> 1..Len(entries)] :
                    \A i, j \in 1..Len(entries) : i # j => q[i] # q[j] } }

SummariesIn(groups) == { groups[k] : k \in 1..Len(groups) }

\* C17: the aggregation does not depend on the order of the entries: for any
\* two orderings of the same entries ListGroups gives the same set of
\* summaries.
C17_OrderIndependent ==
    lgPc = "done" =>
        \A reordered \in Reorderings(lgEntries) :
            \A groups \in ListGroups(reordered) :
                SummariesIn(groups) = SummariesIn(lgResult)

\* three different entries of one group, the first neither the earliest nor
\* the latest in time
C17_Witness ==
    /\ lgPc = "done"
    /\ Len(lgEntries) = 3
    /\ lgEntries[1].Timestamp = 5 /\ lgEntries[2].Timestamp = 7
    /\ lgEntries[3].Timestamp = 0
    /\ lgEntries[1].Group = lgEntries[2].Group /\ lgEntries[2].Group = lgEntries[3].Group
    /\ Cardinality(Reorderings(lgEntries)) = 6
    /\ Len(lgResult) = 1
    /\ lgResult[1].FirstSeen.ms = 0 /\ lgResult[1].LastSeen.ms = 7

\* ---------------------------------------------------------------- LogEntry methods
\* bounds on the contents: bytes of a control-code string, pieces of a
\* progress-like string
MaxStripLen == 5
MaxPieces == 2

UPPER_K == 75
PERCENT == 37
EraseInLine == <<LBRACKET, UPPER_K>>                       \* "[K"
Objects == <<111, 98, 106, 101, 99, 116, 115>>              \* "objects"
Deltas == <<100, 101, 108, 116, 97, 115>>                   \* "deltas"

\* variant: either condition alone is enough
IsProgress_EitherCondition(entry) ==
    \/ Contains(entry.Content, EraseInLine)
    \/ Contains(CleanContent(entry), Objects)
    \/ Contains(CleanContent(entry), Deltas)
    \/ Contains(CleanContent(entry), <<PERCENT>>)

\* variant: the words are looked for in the raw content
IsProgress_WordsInRawContent(entry) ==
    /\ Contains(entry.Content, EraseInLine)
    /\ \/ Contains(entry.Content, Objects)
       \/ Contains(entry.Content, Deltas)
       \/ Contains(entry.Content, <<PERCENT>>)

\* LogEntry.IsProgress
IsProgress(entry) ==
    IF ~Contains(entry.Content, EraseInLine) THEN FALSE
    ELSE LET cleanContent == CleanContent(entry)
         IN \/ Contains(cleanContent, Objects)
            \/ Contains(cleanContent, Deltas)
            \/ Contains(cleanContent, <<PERCENT>>)

\* strings of control-code bytes: ESC, "[", a parameter digit, a final letter
ControlStrings == SeqsUpTo({ ESC, LBRACKET, 49, 109 }, MaxStripLen)

RECURSIVE Concat(_)
Concat(pieces) == IF pieces = <<>> THEN <<>> ELSE Head(pieces) \o Concat(Tail(pieces))

\* pieces of progress lines: "[K" with and without ESC, the three marks, a
\* colour code, and the halves of a word a colour code can separate
ProgressPieces ==
    { EraseInLine, <<ESC>> \o EraseInLine, Objects, Deltas, <<PERCENT>>, <<LOWER_a>>,
      <<ESC, LBRACKET, 49, 109>>, <<111, 98, 106>>, <<101, 99, 116, 115>>,
      <<LBRACKET>>, <<UPPER_K>> }

ProgressStrings == { Concat(pieces) : pieces \in SeqsUpTo(ProgressPieces, MaxPieces + 1) }

Contents == ControlStrings \cup ProgressStrings

InitContent ==
    /\ cnContent \in Contents
    /\ cnResult = [called |-> FALSE]
    /\ cnPc = "call"
    /\ IdleLine /\ IdleParser /\ IdleAll /\ IdleExport /\ IdleRead /\ IdleFilter
    /\ IdleSeek /\ IdleGroups /\ IdleMore

\* the methods are called on an entry with this content; StripANSI is called
\* again on what it returned
ContentCall ==
    /\ cnPc = "call"
    /\ LET entry == LogEntry(ZeroTime, cnContent, cnContent, <<>>)
       IN cnResult' = [called |-> TRUE,
                       CleanContent |-> CleanContent(entry),
                       StrippedAgain |-> StripANSI(CleanContent(entry)),
                       IsProgress |-> IsProgress(entry),
                       IsGroup |-> IsGroup(entry)]
    /\ cnPc' = "done"
    /\ UNCHANGED cnContent
    /\ UNCHANGED <<lineVars, parserVars, allVars, exportVars, readVars, filterVars,
                   seekVars, groupsVars, moreVars>>

NextContent == ContentCall

SpecContent == InitContent /\ [][NextContent]_vars

\* C18: StripANSI is idempotent: stripping what StripANSI returned gives the
\* same string again.
C18_StripIdempotent ==
    cnPc = "done" => cnResult.StrippedAgain = cnResult.CleanContent

\* byte string s occurs in byte string str
Occurs(s, str) ==
    \E k \in 1..(Len(str) - Len(s) + 1) :
        \A i \in 1..Len(s) : str[k + i - 1] = s[i]

\* C19: IsProgress is true iff the raw content contains "[K" and the
\* ANSI-stripped content contains "objects", "deltas" or a percent sign;
\* neither condition alone makes a line a progress line.
C19_ProgressNeedsBoth ==
    cnPc = "done" =>
        (cnResult.IsProgress <=>
            /\ Occurs(<<91, 75>>, cnContent)
            /\ \/ Occurs(<<111, 98, 106, 101, 99, 116, 115>>, StripANSI(cnContent))
               \/ Occurs(<<100, 101, 108, 116, 97, 115>>, StripANSI(cnContent))
               \/ Occurs(<<37>>, StripANSI(cnContent)))

\* a progress line whose word "objects" only shows once the colour code inside
\* it is stripped
C19_Witness ==
    /\ cnPc = "done"
    /\ cnContent = <<111, 98, 106>> \o <<ESC, LBRACKET, UPPER_K>> \o <<101, 99, 116, 115>>
    /\ cnResult.IsProgress
    /\ cnResult.CleanContent = Objects

\* ---------------------------------------------------------------- HasTimestamp
\* C20: HasTimestamp is true iff the line was a well-formed frame: a frame
\* with timestamp value 0 gives true, as every other well-formed frame does,
\* and an unframed line gives false.
C20_HasTimestampIffWellFormedFrame ==
    (linePc = "done" /\ lineResult.err = NilErr) =>
        (HasTimestamp(lineResult.entry) <=>
            (HasTerminator(line) /\ IsBase10Integer(FieldOf(line))))

\* ---------------------------------------------------------------- parquet.go createRecordFromEntries
\* An int64 column value: four 16-bit words in two's complement, least
\* significant first (the values of Time.UnixMilli do not all fit a model integer).
MaxRecEntries == 2

Word == 65536

Int64OfNat(n) == <<n % Word, (n \div Word) % Word, 0, 0>>

\* a * k modulo 2^64, for a small factor k
Int64MulSmall(a, k) ==
    LET p1 == a[1] * k
        p2 == a[2] * k + (p1 \div Word)
        p3 == a[3] * k + (p2 \div Word)
        p4 == a[4] * k + (p3 \div Word)
    IN <<p1 % Word, p2 % Word, p3 % Word, p4 % Word>>

\* -a modulo 2^64
Int64Neg(a) ==
    LET c1 == (Word - 1 - a[1]) + 1
        c2 == (Word - 1 - a[2]) + (c1 \div Word)
        c3 == (Word - 1 - a[3]) + (c2 \div Word)
        c4 == (Word - 1 - a[4]) + (c3 \div Word)
    IN <<c1 % Word, c2 % Word, c3 % Word, c4 % Word>>

Int64Of(n) == IF n < 0 THEN Int64Neg(Int64OfNat(0 - n)) ELSE Int64OfNat(n)

Int64IsNegative(a) == a[4] >= Word \div 2

\* The zero time.Time is January 1, year 1, 00:00:00 UTC: 719162 days, that
\* is 62135596800 seconds, before the Unix epoch.
DaysBeforeEpoch == 1969 * 365 + 1969 \div 4 - 1969 \div 100 + 1969 \div 400
ZeroTimeUnixSeconds ==
    Int64Neg(Int64MulSmall(Int64MulSmall(Int64OfNat(DaysBeforeEpoch), 864), 100))

\* variant: the zero time is written as 0
UnixMilli_ZeroAsEpoch(t) == Int64Of(t.ms)

\* Time.UnixMilli as called on entry.Timestamp, whatever HasTimestamp says
UnixMilli(t) ==
    IF t.zero THEN Int64MulSmall(ZeroTimeUnixSeconds, 1000) ELSE Int64Of(t.ms)

DOLLAR == 36
SPACE == 32

\* LogEntry.IsCommand
IsCommand(entry) == HasPrefix(CleanContent(entry), <<DOLLAR, SPACE>>)

\* one iteration of the loop of createRecordFromEntries: the eight column values
RecordRow(entry) ==
    [timestamp     |-> UnixMilli(entry.Timestamp),
     content       |-> entry.Content,
     group         |-> entry.Group,
     has_timestamp |-> HasTimestamp(entry),
     is_command    |-> IsCommand(entry),
     is_group      |-> IsGroup(entry),
     is_progress   |-> IsProgress(entry),
     raw_line_size |-> Len(entry.RawLine)]

createRecordFromEntries(entries) == [i \in 1..Len(entries) |-> RecordRow(entries[i])]

\* the lines behind the entries: unframed text, a command, a header, a
\* progress line, and frames with timestamps 0, 1 and 17
Frame(field, content) == Introducer \o field \o <<BEL>> \o content
RecordLines ==
    { <<LOWER_a>>, <<DOLLAR, SPACE, LOWER_a>>, <<TILDE, TILDE, TILDE, LOWER_a>>,
      <<LBRACKET, UPPER_K, 49, PERCENT>>,
      Frame(<<DIGIT0>>, <<LOWER_a>>), Frame(<<49>>, <<LOWER_a>>),
      Frame(<<49, 55>>, <<DOLLAR, SPACE, LOWER_a>>),
      Frame(<<49, 55>>, <<MINUS, MINUS, MINUS>>) }

\* the entries a Parser returns for them, before and inside a group
RecordEntries ==
    { ParserParseLine(g, ln).entry :
        g \in { <<>>, <<PLUS, PLUS, PLUS>> }, ln \in RecordLines }

InitRecord ==
    /\ recEntries \in SeqsUpTo(RecordEntries, MaxRecEntries)
    /\ recRecord = <<>>
    /\ recPc = "call"
    /\ IdleLine /\ IdleParser /\ IdleAll /\ IdleExport /\ IdleRead /\ IdleFilter
    /\ IdleSeek /\ IdleGroups /\ IdleContent
    /\ IdleTwo /\ IdleIter /\ IdleQuery /\ IdlePair

\* ExportToParquet and ParquetWriter.WriteBatch: the record handed to the store
CreateRecord ==
    /\ recPc = "call"
    /\ recRecord' = createRecordFromEntries(recEntries)
    /\ recPc' = "done"
    /\ UNCHANGED recEntries
    /\ UNCHANGED <<lineVars, parserVars, allVars, exportVars, readVars, filterVars,
                   seekVars, groupsVars, contentVars, twoVars, iterVars, queryVars, pairVars>>

NextRecord == CreateRecord

SpecRecord == InitRecord /\ [][NextRecord]_vars

\* C21: every record without a timestamp is persisted with timestamp column
\* value 0 together with has_timestamp = false.
C21_NoTimestampPersistedAsZero ==
    recPc = "done" =>
        /\ Len(recRecord) = Len(recEntries)
        /\ \A i \in 1..Len(recEntries) :
              recEntries[i].Timestamp.zero =>
                  /\ recRecord[i].timestamp = <<0, 0, 0, 0>>
                  /\ recRecord[i].has_timestamp = FALSE

\* C21, what the code does: such a record has has_timestamp = false and a
\* negative timestamp column value, the millisecond count of the zero time
C21_NoTimestampPersistedAsYearOne ==
    recPc = "done" =>
        \A i \in 1..Len(recEntries) :
            recEntries[i].Timestamp.zero =>
                /\ recRecord[i].has_timestamp = FALSE
                /\ Int64IsNegative(recRecord[i].timestamp)
                /\ recRecord[i].timestamp = <<10240, 60883, 51068, 65535>>

\* ---------------------------------------------------------------- Parser.All, one Parser over several streams
\* p.All(reader) and p.NewIterator(reader) keep the Parser p they are called
\* on; nothing in them touches p.currentGroup before the first line is parsed.
MaxStreams == 2
MaxReuseLines == 2

InitReuse == InitAll /\ Len(input) <= MaxReuseLines

\* p.All(reader) is called and iterated again, on the Parser of the stream
\* that has ended or was stopped
AllNewStream ==
    /\ allPc \in {"done", "stopped"}
    /\ allStreams < MaxStreams
    /\ input' \in SeqsUpTo(AllLines, MaxReuseLines)
    /\ readFails' \in BOOLEAN
    /\ pos' = 0
    /\ yielded' = <<>>
    /\ allPc' = "scan"
    /\ stoppedAfter' = -1
    /\ allStreams' = allStreams + 1
    /\ UNCHANGED <<lineVars, parserVars, exportVars, readVars, filterVars,
                   seekVars, groupsVars, contentVars, moreVars>>

NextReuse == NextAll \/ AllNewStream

SpecReuse == InitReuse /\ [][NextReuse]_vars

\* C22: in every stream iterated with Parser.All, the records before that
\* stream's first group header have an empty group, also when the same Parser
\* was used before to parse another stream.
C22_GroupScopedToStream ==
    \A i \in 1..Len(yielded) :
        (i <= Len(input) /\ yielded[i].err = NilErr /\ HeaderLinesUpTo(i) = {})
            => yielded[i].entry.Group = <<>>

\* C22 for the first stream of a Parser only
C22_GroupScopedToFirstStream == allStreams = 1 => C22_GroupScopedToStream

\* ---------------------------------------------------------------- two Parser values
\* NewParser returns a fresh Parser with its own currentGroup field; the
\* package has no package-level variable.
MaxTwoCalls == 2

Parsers == 1..2

NewParser == [currentGroup |-> <<>>, history |-> <<>>]

\* variant: the current group is one package-level variable instead of a field
ParseLineOn_SharedGroup(ps, p, ln) ==
    LET r == ParserParseLine(ps[1].currentGroup, ln)
        qs == [ps EXCEPT ![1].currentGroup = r.currentGroup]
    IN [qs EXCEPT ![p].history =
            Append(@, [line |-> ln, entry |-> r.entry, err |-> r.err])]

\* p.ParseLine(ln) on the Parser p of the two
ParseLineOn(ps, p, ln) ==
    LET r == ParserParseLine(ps[p].currentGroup, ln)
    IN [ps EXCEPT ![p] =
            [currentGroup |-> r.currentGroup,
             history |-> Append(@.history, [line |-> ln, entry |-> r.entry, err |-> r.err])]]

InitTwo ==
    /\ parsers = [p \in Parsers |-> NewParser]
    /\ IdleLine /\ IdleParser /\ IdleAll /\ IdleExport /\ IdleRead /\ IdleFilter
    /\ IdleSeek /\ IdleGroups /\ IdleContent
    /\ IdleRecord /\ IdleIter /\ IdleQuery /\ IdlePair

\* the next call is made on either Parser, in any interleaving
TwoParseLine ==
    /\ \E p \in Parsers, ln \in AllLines :
          /\ Len(parsers[p].history) < MaxTwoCalls
          /\ parsers' = ParseLineOn(parsers, p, ln)
    /\ UNCHANGED <<lineVars, parserVars, allVars, exportVars, readVars, filterVars,
                   seekVars, groupsVars, contentVars, recordVars, iterVars, queryVars, pairVars>>

NextTwo == TwoParseLine

SpecTwo == InitTwo /\ [][NextTwo]_vars

\* What a Parser run alone returns for the i-th of the lines it is given: the
\* byte-level parse of that line, stamped with the stripped content of the
\* last header among the first i lines.
AloneHeaders(lines, i) ==
    { j \in 1..i : /\ ByteParserParseLine(lines[j]).err = NilErr
                   /\ IsHeaderContent(StripANSI(ByteParserParseLine(lines[j]).entry.Content)) }
AloneGroup(lines, i) ==
    IF AloneHeaders(lines, i) = {} THEN <<>>
    ELSE StripANSI(ByteParserParseLine(lines[Max(AloneHeaders(lines, i))]).entry.Content)
AloneResult(lines, i) ==
    LET r == ByteParserParseLine(lines[i])
    IN IF r.err # NilErr THEN Pair(NilEntry, r.err)
       ELSE Pair([r.entry EXCEPT !.Group = AloneGroup(lines, i)], NilErr)

LinesGivenTo(p) == [i \in 1..Len(parsers[p].history) |-> parsers[p].history[i].line]

\* C23: for two Parser values whose ParseLine calls are interleaved in any
\* order, each one's sequence of returned records (Group included) equals the
\* one it produces when run alone on the lines it was given.
C23_ParsersDoNotInterfere ==
    \A p \in Parsers :
        \A i \in 1..Len(parsers[p].history) :
            Pair(parsers[p].history[i].entry, parsers[p].history[i].err)
                = AloneResult(LinesGivenTo(p), i)

\* both Parsers are inside different groups, the other's header having been
\* parsed between the header and the record of the first
C23_Witness ==
    /\ Len(parsers[1].history) = 2
    /\ Len(parsers[2].history) = 2
    /\ parsers[1].history[1].line = <<MINUS, MINUS, MINUS>>
    /\ parsers[1].history[2].entry = LogEntry(ZeroTime, <<97>>, <<97>>, <<MINUS, MINUS, MINUS>>)
    /\ parsers[2].currentGroup = <<TILDE, TILDE, TILDE, 97>>
    /\ parsers[2].history[2].err = NilErr
    /\ parsers[2].history[2].entry.Group = <<TILDE, TILDE, TILDE, 97>>

\* ---------------------------------------------------------------- Parser.All, reader failure
\* the pairs that report the reader's failure
ReadErrorPairs == { i \in 1..Len(yielded) : yielded[i] = Pair(NilEntry, ErrRead) }

\* C24: when the underlying reader fails, Parser.All yields exactly one final
\* (nil, error) pair as its last pair and nothing after it; on a clean end of
\* input it yields no error pair at the end.
C24_OneFinalReadErrorPair ==
    /\ ReadErrorPairs \subseteq {Len(input) + 1}
    /\ ~readFails => ReadErrorPairs = {}
    /\ Len(yielded) <= Len(input) + (IF readFails THEN 1 ELSE 0)
    /\ allPc = "done" =>
          /\ readFails =>
                /\ Len(yielded) = Len(input) + 1
                /\ ReadErrorPairs = {Len(yielded)}
          /\ ~readFails => Len(yielded) = Len(input)

\* the reader failed after two lines, the second of them malformed: the pairs
\* are the record, the parse error and the read error
C24_Witness ==
    /\ allPc = "done"
    /\ readFails
    /\ Len(input) = 2
    /\ Len(yielded) = 3
    /\ yielded[1].err = NilErr
    /\ yielded[2].err = ErrSyntax
    /\ yielded[3] = Pair(NilEntry, ErrRead)

\* a clean end of input after a malformed last line: no pair follows its error
C24_WitnessCleanEnd ==
    /\ allPc = "done"
    /\ ~readFails
    /\ Len(input) = 2
    /\ Len(yielded) = 2
    /\ yielded[2].err = ErrSyntax

\* ---------------------------------------------------------------- LogIterator
MaxIterLines == 3
MaxIterCalls == 5

\* variant: Next does not look at iter.err before it scans
LogIteratorNext_NoErrCheck(lines, fails, it, group) ==
    IF it.pos >= Len(lines)
    THEN [it |-> [it EXCEPT !.err = IF fails THEN ErrRead ELSE NilErr],
          group |-> group, parsed |-> <<>>, ret |-> FALSE]
    ELSE LET ln == lines[it.pos + 1]
             r  == ParserParseLine(group, ln)
             call == <<[line |-> ln, entry |-> r.entry, err |-> r.err]>>
         IN IF r.err # NilErr
            THEN [it |-> [it EXCEPT !.pos = @ + 1, !.err = r.err],
                  group |-> r.currentGroup, parsed |-> call, ret |-> FALSE]
            ELSE [it |-> [it EXCEPT !.pos = @ + 1, !.current = r.entry],
                  group |-> r.currentGroup, parsed |-> call, ret |-> TRUE]

\* variant: the iterator parses every line with the group the Parser had
\* when the iterator was made
LogIteratorNext_GroupNotKept(lines, fails, it, group) ==
    IF it.err # NilErr
    THEN [it |-> it, group |-> group, parsed |-> <<>>, ret |-> FALSE]
    ELSE IF it.pos >= Len(lines)
    THEN [it |-> [it EXCEPT !.err = IF fails THEN ErrRead ELSE NilErr],
          group |-> group, parsed |-> <<>>, ret |-> FALSE]
    ELSE LET ln == lines[it.pos + 1]
             r  == ParserParseLine(group, ln)
             call == <<[line |-> ln, entry |-> r.entry, err |-> r.err]>>
         IN IF r.err # NilErr
            THEN [it |-> [it EXCEPT !.pos = @ + 1, !.err = r.err],
                  group |-> group, parsed |-> call, ret |-> FALSE]
            ELSE [it |-> [it EXCEPT !.pos = @ + 1, !.current = r.entry],
                  group |-> group, parsed |-> call, ret |-> TRUE]

\* LogIterator.Next on the iterator it = [pos, current, err] whose Parser has
\* the current group `group`: the iterator and the group after the call, the
\* ParseLine call made if any, and the returned value.  A scanner that has
\* returned false keeps returning false, with the same Err().
LogIteratorNext(lines, fails, it, group) ==
    IF it.err # NilErr
    THEN [it |-> it, group |-> group, parsed |-> <<>>, ret |-> FALSE]
    ELSE IF it.pos >= Len(lines)
    THEN [it |-> [it EXCEPT !.err = IF fails THEN ErrRead ELSE NilErr],
          group |-> group, parsed |-> <<>>, ret |-> FALSE]
    ELSE LET ln == lines[it.pos + 1]
             r  == ParserParseLine(group, ln)
             call == <<[line |-> ln, entry |-> r.entry, err |-> r.err]>>
         IN IF r.err # NilErr
            THEN [it |-> [it EXCEPT !.pos = @ + 1, !.err = r.err],
                  group |-> r.currentGroup, parsed |-> call, ret |-> FALSE]
            ELSE [it |-> [it EXCEPT !.pos = @ + 1, !.current = r.entry],
                  group |-> r.currentGroup, parsed |-> call, ret |-> TRUE]

\* Parser.NewIterator on a fresh Parser
InitIter ==
    /\ itInput \in SeqsUpTo(AllLines, MaxIterLines)
    /\ itFails \in BOOLEAN
    /\ itPos = 0
    /\ itCurrent = NilEntry
    /\ itErr = NilErr
    /\ itCalls = <<>>
    /\ currentGroup = <<>>
    /\ history = <<>>
    /\ IdleLine /\ IdleAll /\ IdleExport /\ IdleRead /\ IdleFilter
    /\ IdleSeek /\ IdleGroups /\ IdleContent
    /\ IdleRecord /\ IdleTwo /\ IdleQuery /\ IdlePair

\* the caller calls Next, then Err and Entry
IterNextCall ==
    /\ Len(itCalls) < MaxIterCalls
    /\ LET n == LogIteratorNext(itInput, itFails,
                                [pos |-> itPos, current |-> itCurrent, err |-> itErr],
                                currentGroup)
       IN /\ itPos' = n.it.pos
          /\ itCurrent' = n.it.current
          /\ itErr' = n.it.err
          /\ currentGroup' = n.group
          /\ history' = history \o n.parsed
          /\ itCalls' = Append(itCalls, [ret |-> n.ret, err |-> n.it.err,
                                         entry |-> n.it.current])
    /\ UNCHANGED <<itInput, itFails>>
    /\ UNCHANGED <<lineVars, allVars, exportVars, readVars, filterVars,
                   seekVars, groupsVars, contentVars, recordVars, twoVars, queryVars, pairVars>>

NextIter == IterNextCall

SpecIter == InitIter /\ [][NextIter]_vars

\* the malformed lines of the input, and the number of lines before the first
MalformedLines == { i \in 1..Len(itInput) : ByteParserParseLine(itInput[i]).err # NilErr }
GoodPrefix == IF MalformedLines = {} THEN Len(itInput) ELSE Min(MalformedLines) - 1

\* the error the iteration ends with: the first malformed line's, else the
\* reader's, else none
FinalErr ==
    IF MalformedLines # {} THEN ByteParserParseLine(itInput[Min(MalformedLines)]).err
    ELSE IF itFails THEN ErrRead ELSE NilErr

\* C25: once Next has returned false, every later Next call returns false and
\* Err keeps returning the same value, nil after a clean end of input and the
\* first error otherwise; lines after a malformed line are never returned.
C25_NextStaysFalse ==
    /\ \A i \in 1..Len(itCalls) :
          /\ itCalls[i].ret <=> i <= GoodPrefix
          /\ itCalls[i].ret =>
                /\ itCalls[i].err = NilErr
                /\ itCalls[i].entry.RawLine = itInput[i]
          /\ ~itCalls[i].ret => itCalls[i].err = FinalErr
    /\ \A i \in 1..Len(itCalls) : \A j \in i..Len(itCalls) :
          ~itCalls[i].ret =>
              /\ ~itCalls[j].ret
              /\ itCalls[j].err = itCalls[i].err
    /\ Len(history) <= GoodPrefix + 1

\* Next returned false at a malformed second line that is followed by a good
\* line, and was called twice more
C25_Witness ==
    /\ Len(itInput) = 3
    /\ MalformedLines = {2}
    /\ Len(itCalls) = 4
    /\ itCalls[1].ret
    /\ ~itCalls[2].ret /\ ~itCalls[3].ret /\ ~itCalls[4].ret
    /\ itCalls[4].err = ErrSyntax
    /\ itPos = 2

\* Next returned false at a clean end of input and was called again
C25_WitnessCleanEnd ==
    /\ Len(itInput) = 2
    /\ ~itFails
    /\ MalformedLines = {}
    /\ Len(itCalls) = 4
    /\ ~itCalls[3].ret /\ ~itCalls[4].ret
    /\ itCalls[4].err = NilErr

\* ---------------------------------------------------------------- reader errors
\* C26: an error of the full-scan iterator is terminal: once the iterator has
\* yielded an error pair it yields no further pair, even if the consumer keeps
\* pulling.
C26_ErrorPairIsLast ==
    \A i \in 1..Len(rdYielded) :
        rdYielded[i].err # NilErr => i = Len(rdYielded)

\* C26 for the errors found outside the row loop (open failure, read failure,
\* missing required column): those are terminal
C26_OpenOrReadErrorIsLast ==
    \A i \in 1..Len(rdYielded) :
        (rdYielded[i].err # NilErr /\ rdYielded[i].err \notin {ErrTimestampType, ErrContentType})
            => i = Len(rdYielded)

\* ---------------------------------------------------------------- full scan of a missing or unreadable file
\* the file is missing, or it cannot be opened as a Parquet file, or no reader
\* can be made for it
Unreadable(f) == ~f.exists \/ f.fault \in {"header", "arrow", "records"}

\* C27: for a missing or unreadable file the full scan yields exactly one
\* (zero-value record, error) pair as its first pair and then ends: the error
\* comes before any record and no record is ever yielded.
C27_UnreadableFileGivesOneErrorPair ==
    Unreadable(file) =>
        /\ Len(rdYielded) <= 1
        /\ \A i \in 1..Len(rdYielded) :
              /\ rdYielded[i].entry = ZeroParquetEntry
              /\ rdYielded[i].err # NilErr
        /\ rdPc \in {"open", "done"}
        /\ rdPc # "open" => Len(rdYielded) = 1

\* the missing file: one pair, the open error
C27_Witness ==
    /\ ~file.exists
    /\ rdPc = "done"
    /\ rdYielded = <<Pair(ZeroParquetEntry, ErrOpen)>>

\* ---------------------------------------------------------------- ParquetReader.Query
MaxQueryRows == 1

ErrQueryRead == "failed to read Parquet file"
ErrPatternRequired == "group pattern is required for by-group operation"
ErrUnknownOperation == "unknown operation"

\* the result of a call that returns (nil, err)
QueryFailed(err) ==
    [err |-> err, Groups |-> <<>>, Entries |-> <<>>,
     TotalEntries |-> 0, TotalGroups |-> 0, MatchedEntries |-> 0]

\* FilterByGroup on a slice
FilterByGroup(entries, groupPattern) ==
    SelectSeq(entries, LAMBDA entry : FilterMatches(entry, groupPattern))

\* what pr.ReadEntries() does to the file: os.Open is called, and the table
\* is read when the file and its readers could be opened
ReadEntriesAccess(f) ==
    IF ~f.exists \/ f.fault \in {"header", "arrow"} THEN <<"os.Open">>
    ELSE <<"os.Open", "ReadTable">>

\* ParquetReader.Query: the results the call can return (ListGroups does not
\* fix the order of groups first seen at the same time), each with what was
\* done to the file
QueryResults(operation, groupPattern, f) ==
    LET r == readParquetFile(f)
    IN IF r.err # NilErr
       THEN { [log |-> ReadEntriesAccess(f), result |-> QueryFailed(ErrQueryRead)] }
       ELSE IF operation = "list-groups"
       THEN { [log |-> ReadEntriesAccess(f),
               result |-> [err |-> NilErr, Groups |-> g, Entries |-> <<>>,
                           TotalEntries |-> Len(r.entries), TotalGroups |-> Len(g),
                           MatchedEntries |-> Len(r.entries)]] :
                g \in ListGroups(r.entries) }
       ELSE IF operation = "by-group"
       THEN IF groupPattern = <<>>
            THEN { [log |-> ReadEntriesAccess(f), result |-> QueryFailed(ErrPatternRequired)] }
            ELSE { [log |-> ReadEntriesAccess(f),
                    result |-> [err |-> NilErr, Groups |-> <<>>,
                                Entries |-> FilterByGroup(r.entries, groupPattern),
                                TotalEntries |-> Len(r.entries), TotalGroups |-> 0,
                                MatchedEntries |->
                                    Len(FilterByGroup(r.entries, groupPattern))]] }
       ELSE { [log |-> ReadEntriesAccess(f), result |-> QueryFailed(ErrUnknownOperation)] }

QueryOperations == { "list-groups", "by-group", "list", "" }
QueryPatterns == { <<>>, <<TILDE>> }

InitQuery ==
    /\ file \in FilesUpTo(MaxQueryRows)
    /\ qOperation \in QueryOperations
    /\ qPattern \in QueryPatterns
    /\ qLog = <<>>
    /\ qResult = QueryFailed(NilErr)
    /\ qPc = "call"
    /\ rdBatchSize = 0 /\ rdNext = 0 /\ rdRecord = <<>> /\ rdRow = 0
    /\ rdMapped = FALSE /\ rdYielded = <<>> /\ rdPc = "idle" /\ rdLog = <<>>
    /\ IdleLine /\ IdleParser /\ IdleAll /\ IdleExport /\ IdleFilter
    /\ IdleSeek /\ IdleGroups /\ IdleContent
    /\ IdleRecord /\ IdleTwo /\ IdleIter /\ IdlePair

QueryCall ==
    /\ qPc = "call"
    /\ \E q \in QueryResults(qOperation, qPattern, file) :
          /\ qLog' = q.log
          /\ qResult' = q.result
    /\ qPc' = "done"
    /\ UNCHANGED <<qOperation, qPattern>>
    /\ UNCHANGED <<lineVars, parserVars, allVars, exportVars, readVars, filterVars,
                   seekVars, groupsVars, contentVars, recordVars, twoVars, iterVars, pairVars>>

NextQuery == QueryCall

SpecQuery == InitQuery /\ [][NextQuery]_vars

\* the call is a usage error: an unknown operation name, or by-group with an
\* empty pattern
UsageError ==
    \/ qOperation \notin {"list-groups", "by-group"}
    \/ qOperation = "by-group" /\ qPattern = <<>>

\* C28: Query detects a usage error before any data is touched: the usage
\* error is returned without the file having been opened or any row read,
\* whatever the file's existence or content.
C28_UsageErrorBeforeData ==
    (qPc = "done" /\ UsageError) =>
        /\ qResult.err \in {ErrUnknownOperation, ErrPatternRequired}
        /\ qLog = <<>>

\* what the code does: a usage error is reported only for a file that could be
\* read in full, after it was read
C28_UsageErrorAfterRead ==
    (qPc = "done" /\ UsageError) =>
        /\ qLog # <<>>
        /\ qLog[1] = "os.Open"
        /\ qResult.err \in {ErrUnknownOperation, ErrPatternRequired}
              <=> readParquetFile(file).err = NilErr
        /\ qResult.err \notin {ErrUnknownOperation, ErrPatternRequired}
              => qResult.err = ErrQueryRead

\* ---------------------------------------------------------------- parquet.go export, failing calls
MaxWriteFault == 2

\* the input sizes: nothing, one entry, a full batch, a full batch and one
FaultSizes == { 0, 1, batchSize, batchSize + 1 }

\* at most one call fails: os.Create, NewParquetWriter, or the k-th Write
ExportFaults ==
    { NoFaults, [NoFaults EXCEPT !.create = TRUE], [NoFaults EXCEPT !.writer = TRUE] }
    \cup { [NoFaults EXCEPT !.write = k] : k \in 1..MaxWriteFault }

ExportFilters == { "nil", "all", "none", "even" }

InitExportFaults ==
    /\ expMode \in {"seq2", "filter", "iterator"}
    /\ expInput \in [count : FaultSizes, fails : BOOLEAN]
    /\ expFaults \in ExportFaults
    /\ expFilter \in IF expMode = "filter" THEN ExportFilters ELSE {"nil"}
    /\ expConsumed = 0
    /\ batch = <<>>
    /\ written = <<>>
    /\ expPc = "create"
    /\ expResult = NilErr
    /\ expLog = <<>>
    /\ IdleLine /\ IdleParser /\ IdleAll /\ IdleRead /\ IdleFilter
    /\ IdleSeek /\ IdleGroups /\ IdleContent /\ IdleMore

Others_Export == <<lineVars, parserVars, allVars, readVars, filterVars,
                   seekVars, groupsVars, contentVars, moreVars>>

\* os.Create and NewParquetWriter, each followed by the defer of its Close
ExportCreate ==
    /\ expPc = "create"
    /\ IF expFaults.create
       THEN /\ expLog' = expLog
            /\ expResult' = ErrCreate
            /\ expPc' = "done"
       ELSE IF expFaults.writer
       THEN /\ expLog' = <<Acquire("file")>> \o Deferred(<<"file">>)
            /\ expResult' = ErrWriter
            /\ expPc' = "done"
       ELSE /\ expLog' = Acquired(<<"file", "writer">>)
            /\ expResult' = expResult
            /\ expPc' = "loop"
    /\ UNCHANGED <<expMode, expInput, expConsumed, batch, written, expFaults, expFilter>>
    /\ UNCHANGED Others_Export

\* ExportSeq2ToParquetWithFilter: filterFunc rejects the entry
ExportFilterSkip ==
    /\ expMode = "filter" /\ expPc = "loop"
    /\ expConsumed < expInput.count
    /\ ~Passes
    /\ expConsumed' = expConsumed + 1
    /\ UNCHANGED <<expMode, expInput, batch, written, expPc, expResult, expLog,
                   expFaults, expFilter>>
    /\ UNCHANGED Others_Export

\* the batch is full and WriteBatch returns an error: the function returns it
ExportWriteError ==
    /\ expPc = "loop"
    /\ expConsumed < expInput.count
    /\ Passes
    /\ BatchFull(Append(batch, expConsumed + 1)) /\ WriteFails
    /\ expConsumed' = expConsumed + 1
    /\ batch' = Append(batch, expConsumed + 1)
    /\ expResult' = ErrWrite
    /\ expPc' = "done"
    /\ expLog' = expLog \o Deferred(Opened(expLog))
    /\ UNCHANGED <<expMode, expInput, written, expFaults, expFilter>>
    /\ UNCHANGED Others_Export

\* the source has ended and WriteBatch of the final batch returns an error
ExportFlushError ==
    /\ expPc = "loop"
    /\ expConsumed = expInput.count
    /\ expMode = "iterator" \/ ~expInput.fails
    /\ Len(batch) > 0 /\ WriteFails
    /\ expResult' = ErrWrite
    /\ expPc' = "done"
    /\ expLog' = expLog \o Deferred(Opened(expLog))
    /\ UNCHANGED <<expMode, expInput, expConsumed, batch, written, expFaults, expFilter>>
    /\ UNCHANGED Others_Export

NextExportFaults ==
    \/ ExportCreate \/ ExportFilterSkip \/ ExportWriteError \/ ExportFlushError
    \/ NextExport

SpecExportFaults == InitExportFaults /\ [][NextExportFaults]_vars

\* positions of an event in the export's log
EventsAt(e) == { i \in 1..Len(expLog) : expLog[i] = e }

\* C29: on every return path of the three streaming exports taken after the
\* output file was created, the file handle has been closed, and the store
\* writer, when it was created, has been closed before the file handle.
C29_FileAndWriterClosedOnReturn ==
    (expPc = "done" /\ EventsAt(Acquire("file")) # {}) =>
        /\ Cardinality(EventsAt(Release("file"))) = 1
        /\ EventsAt(Release("file")) = {Len(expLog)}
        /\ IF EventsAt(Acquire("writer")) # {}
           THEN /\ Cardinality(EventsAt(Release("writer"))) = 1
                /\ \A w \in EventsAt(Release("writer")) :
                      /\ w > Max(EventsAt(Acquire("writer")))
                      /\ w < Max(EventsAt(Release("file")))
           ELSE EventsAt(Release("writer")) = {}

\* the filtered export returns a write error from inside its loop, with both
\* handles closed
C29_Witness ==
    /\ expPc = "done"
    /\ expMode = "filter"
    /\ expResult = ErrWrite
    /\ expConsumed = batchSize
    /\ expLog = <<Acquire("file"), Acquire("writer"), Release("writer"), Release("file")>>

\* the writer could not be created: only the file is closed
C29_WitnessNoWriter ==
    /\ expPc = "done"
    /\ expResult = ErrWriter
    /\ expLog = <<Acquire("file"), Release("file")>>

\* ---------------------------------------------------------------- negative timestamp field
\* the field is a minus sign followed by digits that are not all zero
DenotesNegative(f) == IsBase10Integer(f) /\ f[1] = MINUS /\ DecimalValue(f) < 0

\* C30: a framed line (introducer and terminator both present) whose timestamp
\* field denotes a negative integer is a hard error, not a record.
C30_NegativeTimestampIsError ==
    (linePc = "done" /\ HasTerminator(line) /\ DenotesNegative(FieldOf(line)))
        => /\ lineResult.err # NilErr
           /\ lineResult.entry = NilEntry

\* what the code does with such a line: a record with that negative timestamp
C30_NegativeTimestampIsRecord ==
    (linePc = "done" /\ HasTerminator(line) /\ DenotesNegative(FieldOf(line)))
        => /\ lineResult.err = NilErr
           /\ HasTimestamp(lineResult.entry)
           /\ lineResult.entry.Timestamp.ms = DecimalValue(FieldOf(line))
           /\ lineResult.entry.Timestamp.ms < 0

\* ---------------------------------------------------------------- scanner.go, the timestamp at its 64-bit width
\* ByteParser.ParseLine again, with the int64 arithmetic of strconv.ParseInt,
\* of timestampMs*int64(time.Millisecond) and of time.Unix kept word by word.
ErrRange == "strconv.ParseInt: value out of range"

\* a * k + d as an unsigned 64-bit value, and whether it went past 2^64
UInt64MulAdd(a, k, d) ==
    LET p1 == a[1] * k + d
        p2 == a[2] * k + (p1 \div Word)
        p3 == a[3] * k + (p2 \div Word)
        p4 == a[4] * k + (p3 \div Word)
    IN [val |-> <<p1 % Word, p2 % Word, p3 % Word, p4 % Word>>, over |-> p4 \div Word > 0]

\* the quotient and the remainder of an unsigned 64-bit value by a small k
UInt64DivMod(a, k) ==
    LET r4 == a[4] % k
        n3 == r4 * Word + a[3]
        n2 == (n3 % k) * Word + a[2]
        n1 == (n2 % k) * Word + a[1]
    IN [quot |-> <<n1 \div k, n2 \div k, n3 \div k, a[4] \div k>>, rem |-> n1 % k]

\* the digits of s from position i on, accumulated as strconv.ParseUint does
RECURSIVE ParseUint64From(_, _, _, _)
ParseUint64From(s, i, val, over) ==
    IF i > Len(s) THEN [val |-> val, over |-> over]
    ELSE ParseUint64From(s, i + 1, UInt64MulAdd(val, 10, s[i] - DIGIT0).val,
                         over \/ UInt64MulAdd(val, 10, s[i] - DIGIT0).over)

\* strconv.ParseInt(s, 10, 64): syntax error, range error, or the value
ParseInt64(s) ==
    IF Len(s) = 0 THEN [err |-> ErrSyntax, val |-> <<0, 0, 0, 0>>]
    ELSE LET neg    == s[1] = MINUS
             digits == IF s[1] = PLUS \/ s[1] = MINUS THEN Tail_(s, 2) ELSE s
             un     == ParseUint64From(digits, 1, <<0, 0, 0, 0>>, FALSE)
             top    == Word \div 2
         IN IF Len(digits) = 0 \/ \E i \in 1..Len(digits) : ~IsDigit(digits[i])
            THEN [err |-> ErrSyntax, val |-> <<0, 0, 0, 0>>]
            ELSE IF un.over
                    \/ (~neg /\ un.val[4] >= top)
                    \/ (neg /\ un.val[4] >= top /\ un.val # <<0, 0, 0, top>>)
            THEN [err |-> ErrRange, val |-> <<0, 0, 0, 0>>]
            ELSE [err |-> NilErr, val |-> IF neg THEN Int64Neg(un.val) ELSE un.val]

\* timestampMs * int64(time.Millisecond): the int64 product, which wraps
MillisToNanos(ms) == Int64MulSmall(Int64MulSmall(ms, 1000), 1000)

\* time.Unix(0, nsec), kept as its nanosecond count
TimeUnixNano(nsec) == [zero |-> FALSE, ns |-> nsec]

\* Time.UnixMilli of time.Unix(0, nsec): nsec divided by 10^6, rounded down
UnixMilliOfNanos(nsec) ==
    IF ~Int64IsNegative(nsec)
    THEN UInt64DivMod(UInt64DivMod(nsec, 1000).quot, 1000).quot
    ELSE LET m  == Int64Neg(nsec)
             up == UInt64MulAdd(m, 1, 999999).val
         IN Int64Neg(UInt64DivMod(UInt64DivMod(up, 1000).quot, 1000).quot)

ByteParserParseLine64(ln) ==
    IF Len(ln) < MinFramedLen THEN Unframed(ln)
    ELSE IF ~hasOSCStart(ln) THEN Unframed(ln)
    ELSE LET timestampStart == 7
             timestampEnd   == findBEL(ln, timestampStart)
         IN IF timestampEnd = -1 THEN Unframed(ln)
            ELSE LET timestampBytes == SubSeq(ln, timestampStart + 1, timestampEnd)
                     parsed         == ParseInt64(timestampBytes)
                 IN IF parsed.err # NilErr THEN [entry |-> NilEntry, err |-> parsed.err]
                    ELSE [entry |-> LogEntry(TimeUnixNano(MillisToNanos(parsed.val)),
                                             Tail_(ln, timestampEnd + 2),
                                             ln, <<>>),
                          err |-> NilErr]

\* decimal strings
Digits(ds) == [i \in 1..Len(ds) |-> DIGIT0 + ds[i]]

MaxInt64Decimal == Digits(<<9, 2, 2, 3, 3, 7, 2, 0, 3, 6, 8, 5, 4, 7, 7, 5, 8, 0, 7>>)
MinInt64Magnitude == Digits(<<9, 2, 2, 3, 3, 7, 2, 0, 3, 6, 8, 5, 4, 7, 7, 5, 8, 0, 8>>)

\* the timestamp fields: small values, a present-day timestamp, the values
\* around the largest millisecond count whose nanosecond count fits an
\* int64, the values around the ends of the int64 range, and a non-number
WideMagnitudes ==
    { Digits(<<0>>), Digits(<<1>>), Digits(<<1, 7>>),
      Digits(<<1, 7, 0, 0, 0, 0, 0, 0, 0, 0, 0, 0, 0>>),
      Digits(<<9, 2, 2, 3, 3, 7, 2, 0, 3, 6, 8, 5, 4>>),
      Digits(<<9, 2, 2, 3, 3, 7, 2, 0, 3, 6, 8, 5, 5>>),
      Digits(<<1, 8, 4, 4, 6, 7, 4, 4, 0, 7, 3, 7, 1, 0>>),
      Digits(<<9, 2, 2, 3, 3, 7, 2, 0, 3, 6, 8, 5, 4, 7, 7, 5>>),
      MaxInt64Decimal, MinInt64Magnitude,
      Digits(<<9, 2, 2, 3, 3, 7, 2, 0, 3, 6, 8, 5, 4, 7, 7, 5, 8, 0, 9>>),
      Digits(<<1, 8, 4, 4, 6, 7, 4, 4, 0, 7, 3, 7, 0, 9, 5, 5, 1, 6, 1, 5>>),
      Digits(<<1, 8, 4, 4, 6, 7, 4, 4, 0, 7, 3, 7, 0, 9, 5, 5, 1, 6, 1, 6>>),
      Digits(<<1, 7>>) \o <<120>> }
WideSigns == { <<>>, <<MINUS>>, <<PLUS>> }
WideContents == { <<LOWER_a>>, <<LOWER_a, BEL>>, <<TILDE, TILDE, TILDE, LOWER_a>> }
WideLines ==
    { Introducer \o s \o m \o <<BEL>> \o c :
        s \in WideSigns, m \in WideMagnitudes, c \in WideContents }

InitWide ==
    /\ line \in WideLines
    /\ lineResult = NoResult
    /\ linePc = "call"
    /\ IdleParser /\ IdleAll /\ IdleExport /\ IdleRead /\ IdleFilter
    /\ IdleSeek /\ IdleGroups /\ IdleContent /\ IdleMore

ParseLineStep64 ==
    /\ linePc = "call"
    /\ lineResult' = ByteParserParseLine64(line)
    /\ linePc' = "done"
    /\ UNCHANGED <<line, parserVars, allVars, exportVars, readVars, filterVars,
                   seekVars, groupsVars, contentVars, moreVars>>

NextWide == ParseLineStep64

SpecWide == InitWide /\ [][NextWide]_vars

\* the decimal digits of an unsigned 64-bit value
RECURSIVE UDecimal(_)
UDecimal(a) ==
    IF UInt64DivMod(a, 10).quot = <<0, 0, 0, 0>> THEN <<DIGIT0 + UInt64DivMod(a, 10).rem>>
    ELSE Append(UDecimal(UInt64DivMod(a, 10).quot), DIGIT0 + UInt64DivMod(a, 10).rem)

\* an int64 written in decimal
ToDecimal(n) ==
    IF Int64IsNegative(n) THEN <<MINUS>> \o UDecimal(Int64Neg(n)) ELSE UDecimal(n)

\* a <= b for decimal strings without leading zeros
DecimalLeq(a, b) ==
    \/ Len(a) < Len(b)
    \/ /\ Len(a) = Len(b)
       /\ \/ a = b
          \/ \E i \in 1..Len(a) : a[i] < b[i] /\ \A j \in 1..(i - 1) : a[j] = b[j]

\* the field is an integer of the int64 range; the fields have no leading zeros
FitsInt64(f) ==
    /\ IsBase10Integer(f)
    /\ IF f[1] = MINUS THEN DecimalLeq(UnsignedPart(f), MinInt64Magnitude)
       ELSE DecimalLeq(UnsignedPart(f), MaxInt64Decimal)

\* the integer the field denotes, written without "+" and without "-0"
Canonical(f) ==
    IF UnsignedPart(f) = <<DIGIT0>> THEN <<DIGIT0>>
    ELSE IF f[1] = MINUS THEN f ELSE UnsignedPart(f)

\* C31: for every well-formed frame whose timestamp integer fits in a signed
\* 64-bit integer, the record's timestamp converted back to milliseconds
\* equals the parsed integer.
C31_TimestampRoundTrips ==
    (linePc = "done" /\ HasTerminator(line) /\ FitsInt64(FieldOf(line)))
        => /\ lineResult.err = NilErr
           /\ ToDecimal(UnixMilliOfNanos(lineResult.entry.Timestamp.ns))
                 = Canonical(FieldOf(line))

\* the largest millisecond count whose nanosecond count fits an int64
MaxMillis == Digits(<<9, 2, 2, 3, 3, 7, 2, 0, 3, 6, 8, 5, 4>>)

\* C31 for the timestamps up to the year 2262: those round-trip
C31_TimestampRoundTripsWithinNanoRange ==
    (linePc = "done" /\ HasTerminator(line) /\ IsBase10Integer(FieldOf(line))
        /\ DecimalLeq(UnsignedPart(FieldOf(line)), MaxMillis))
        => /\ lineResult.err = NilErr
           /\ ToDecimal(UnixMilliOfNanos(lineResult.entry.Timestamp.ns))
                 = Canonical(FieldOf(line))

\* a field outside the int64 range is an error, one inside it is a record
C31_RangeErrorIffOutside ==
    (linePc = "done" /\ HasTerminator(line) /\ IsBase10Integer(FieldOf(line)))
        => (lineResult.err = NilErr <=> FitsInt64(FieldOf(line)))


\* ---------------------------------------------------------------- StripANSI on escape-code strings
\* bound on the number of pieces a control-code string is made of
MaxStripPieces == 5

\* pieces of control-code strings: a lone ESC, a lone "[", a final letter, a
\* parameter digit, four parameter bytes ";111", and the two-letter forms
\* "ESC[m" and "[m"
StripPieces ==
    { <<ESC>>, <<LBRACKET>>, <<109>>, <<49>>, <<SEMICOLON, 49, 49, 49>>,
      <<ESC, LBRACKET, 109>>, <<LBRACKET, 109>> }

StripStrings == { Concat(pieces) : pieces \in SeqsUpTo(StripPieces, MaxStripPieces) }

InitStrip ==
    /\ cnContent \in StripStrings
    /\ cnResult = [called |-> FALSE]
    /\ cnPc = "call"
    /\ IdleLine /\ IdleParser /\ IdleAll /\ IdleExport /\ IdleRead /\ IdleFilter
    /\ IdleSeek /\ IdleGroups /\ IdleMore

SpecStrip == InitStrip /\ [][NextContent]_vars

\* a standard CSI sequence lies in str: ESC, "[", parameter bytes (digits and
\* semicolons) and a final ASCII letter
HasCSI(str) ==
    \E i \in 1..Len(str) : \E j \in (i + 2)..Len(str) :
        /\ str[i] = 27 /\ str[i + 1] = 91
        /\ \A k \in (i + 2)..(j - 1) : (str[k] \in 48..57 \/ str[k] = 59)
        /\ str[j] \in (65..90) \cup (97..122)

\* C32: for every input string, the output of StripANSI contains no standard
\* CSI sequence (no ESC followed by "[", parameter bytes and a final letter).
C32_OutputHasNoCSI ==
    cnPc = "done" => ~HasCSI(cnResult.CleanContent)

\* C32, what the code does guarantee: when every ESC of the input is followed
\* by "[", the output contains no ESC at all and hence no CSI sequence.
C32_NoEscWhenEveryEscOpensCSI ==
    (/\ cnPc = "done"
     /\ \A i \in 1..Len(cnContent) :
            cnContent[i] = 27 => (i < Len(cnContent) /\ cnContent[i + 1] = 91))
        => \A k \in 1..Len(cnResult.CleanContent) : cnResult.CleanContent[k] # 27

\* the string "ESC ESC [ m [ [ m m", whose output is the CSI sequence "ESC [ m"
C32_Witness ==
    /\ cnPc = "done"
    /\ cnContent = <<27, 27, 91, 109, 91, 91, 109, 109>>
    /\ cnResult.CleanContent = <<27, 91, 109>>

\* the bytes after a leading "[" have the shape the lookahead accepts: n <= 8
\* digits or semicolons and then an ASCII letter
BracketShape(str, n) ==
    /\ n + 2 <= Len(str)
    /\ \A k \in 2..(n + 1) : (str[k] \in 48..57 \/ str[k] = 59)
    /\ str[n + 2] \in (65..90) \cup (97..122)

\* all but the first n bytes of str
DropFirst(str, n) == SubSeq(str, n + 1, Len(str))

C33_WitnessOutsideWindow ==
    /\ cnPc = "done"
    /\ cnContent = <<91, 59, 49, 49, 49, 59, 49, 49, 49, 49, 109>>
    /\ cnResult.CleanContent = cnContent


\* ---------------------------------------------------------------- failing calls and the group
\* the calls between i and k all failed, and there is at least one
OnlyFailuresBetween(i, k) ==
    /\ i + 1 < k
    /\ \A j \in (i + 1)..(k - 1) : history[j].err # "nil"

\* the group a record shows when it is not a header: the group field of the
\* record returned by the call
GroupShown(i) == history[i].entry.Group

\* C34: when Parser.ParseLine returns an error the current group is left
\* unchanged: the next successfully parsed non-header line carries the group
\* of the last record before the failing lines, and the empty group when no
\* record came before them.
C34_ErrorKeepsGroup ==
    \A k \in 1..Len(history) :
        (history[k].err = "nil" /\ ~IsHeaderCall(k)) =>
            /\ \A i \in 1..(k - 1) :
                   (history[i].err = "nil" /\ OnlyFailuresBetween(i, k))
                       => GroupShown(k) = GroupShown(i)
            /\ (k > 1 /\ \A j \in 1..(k - 1) : history[j].err # "nil")
                   => GroupShown(k) = <<>>

\* a header, a failing line and a plain line: the plain line carries the
\* header's group
C34_Witness ==
    /\ Len(history) = 3
    /\ history[1].err = "nil" /\ IsHeaderCall(1) /\ GroupShown(1) # <<>>
    /\ history[2].err # "nil"
    /\ history[3].err = "nil" /\ ~IsHeaderCall(3)
    /\ GroupShown(3) = GroupShown(1)
    /\ currentGroup = GroupShown(1)


\* ---------------------------------------------------------------- yield after the consumer stopped
\* the iterators of the package, one at a time: Parser.All, the full scan and
\* the row seek with their per-batch conversion, FilterByGroupIter
InitYield == InitAll \/ InitSeek \/ InitFilter

NextYield == NextAll \/ NextSeek \/ NextFilter

SpecYield == InitYield /\ [][NextYield]_vars

\* the consumer of an iterator has answered false, or the iterator returned
\* after yielding an error whose answer it does not look at
AllOver  == allPc \in {"stopped", "done"} \/ stoppedAfter # -1
ReadOver == rdPc \in {"stopped", "done"}
SeekOver == skPc \in {"stopped", "done"}
FilterOver == fltPc \in {"stopped", "done"}

\* C35: no iterator (Parser.All, the full scan, the row seek,
\* FilterByGroupIter, the per-batch conversion) calls yield again after a yield
\* call returned false, on the error-yielding paths as well: once the consumer
\* stopped, the pairs it has received never change.
C35_NoYieldAfterStop ==
    [][/\ AllOver => yielded' = yielded
       /\ ReadOver => rdYielded' = rdYielded
       /\ SeekOver => skYielded' = skYielded
       /\ FilterOver => fltYielded' = fltYielded]_vars

\* Parser.All stopped by its consumer with lines left to scan
C35_Witness ==
    /\ allPc = "stopped"
    /\ stoppedAfter = 1 /\ Len(yielded) = 1
    /\ Len(input) = 3

\* the row seek stopped at an error pair of the per-batch conversion, rows left
C35_WitnessErrorPath ==
    /\ skPc = "stopped"
    /\ Len(skYielded) >= 1
    /\ skYielded[Len(skYielded)].err # "nil"
    /\ skStart + Len(skYielded) < Len(file.rows)

\* the filter stopped with pairs of the underlying sequence left
C35_WitnessFilter ==
    /\ fltPc = "stopped"
    /\ fltPos < Len(fltInput)
    /\ Len(fltYielded) >= 1


\* ---------------------------------------------------------------- LogIterator and Parser.All
\* Parser.All on a Parser whose current group is `group`, run to the end by a
\* consumer that never stops, over a reader that does not fail: the pairs
\* yielded for the lines from the k-th on, appended to ys
RECURSIVE AllRun(_, _, _, _)
AllRun(lines, k, group, ys) ==
    IF k > Len(lines) THEN ys
    ELSE AllRun(lines, k + 1, ParserParseLine(group, lines[k]).currentGroup,
                AllYield(ys, ParserParseLine(group, lines[k])))

\* what the caller of the iterator has collected: Entry() after each Next call
\* that returned true
IterCollected ==
    LET got == SelectSeq(itCalls, LAMBDA c : c.ret)
    IN [i \in 1..Len(got) |-> [entry |-> got[i].entry, err |-> "nil"]]

IterFinished == \E i \in 1..Len(itCalls) : ~itCalls[i].ret

\* C36: for an input with no malformed frame and no read failure, the entries
\* obtained from a LogIterator by repeated Next/Entry are the records Parser.All
\* yields on a fresh Parser over the same input: same content, timestamp and
\* group, same order, same length.
C36_IteratorEqualsAll ==
    (MalformedLines = {} /\ ~itFails) =>
        LET all == AllRun(itInput, 1, <<>>, <<>>)
        IN /\ Len(IterCollected) <= Len(all)
           /\ IterCollected = SubSeq(all, 1, Len(IterCollected))
           /\ IterFinished => IterCollected = all

\* three well-formed lines, the second a header, read to the end
C36_Witness ==
    /\ Len(itInput) = 3
    /\ MalformedLines = {} /\ ~itFails
    /\ Len(itCalls) = 4 /\ ~itCalls[4].ret
    /\ Len(IterCollected) = 3
    /\ IterCollected[1].entry.Group = <<>>
    /\ IterCollected[2].entry.Group # <<>>
    /\ IterCollected[3].entry.Group = IterCollected[2].entry.Group
    /\ IterCollected[3].entry.Content # IterCollected[2].entry.Content


\* ---------------------------------------------------------------- the two streaming exports on one input
\* The same line source is exported twice: by ExportIteratorToParquet over
\* Parser.NewIterator, then by ExportSeq2ToParquet over Parser.All on a fresh
\* Parser.  expInput.count well-formed lines are followed, when expInput.fails,
\* by a malformed line.
InitExportTwice ==
    /\ expMode = "iterator"
    /\ expInput \in [count : ExportSizes, fails : BOOLEAN]
    /\ expConsumed = 0
    /\ batch = <<>>
    /\ written = <<>>
    /\ expPc = "loop"
    /\ expResult = NilErr
    /\ expLog = Acquired(<<"file", "writer">>)
    /\ expFaults = NoFaults
    /\ expFilter = "nil"
    /\ expFirst = NoFirst
    /\ IdleLine /\ IdleParser /\ IdleAll /\ IdleRead /\ IdleFilter
    /\ IdleSeek /\ IdleGroups /\ IdleContent
    /\ IdleRecord /\ IdleTwo /\ IdleIter /\ IdleQuery

\* the first export has returned: what it stored and returned is kept, and the
\* second export starts on the same input with a new file and writer
ExportSecondStart ==
    /\ expMode = "iterator" /\ expPc = "done"
    /\ ~expFirst.ran
    /\ expFirst' = [ran |-> TRUE, written |-> written, result |-> expResult]
    /\ expMode' = "seq2"
    /\ expConsumed' = 0
    /\ batch' = <<>>
    /\ written' = <<>>
    /\ expPc' = "loop"
    /\ expResult' = NilErr
    /\ expLog' = Acquired(<<"file", "writer">>)
    /\ UNCHANGED <<expInput, expFaults, expFilter>>
    /\ UNCHANGED <<lineVars, parserVars, allVars, readVars, filterVars,
                   seekVars, groupsVars, contentVars, recordVars, twoVars,
                   iterVars, queryVars>>

NextExportTwice == NextExport \/ ExportSecondStart

SpecExportTwice == InitExportTwice /\ [][NextExportTwice]_vars

BothExportsReturned == expFirst.ran /\ expMode = "seq2" /\ expPc = "done"

\* C37: for an input whose (m+1)-th line is malformed, ExportIteratorToParquet
\* over Parser.NewIterator and ExportSeq2ToParquet over Parser.All both return
\* an error and have handed the same sequence of records to the store.
C37_ExportsAgreeOnFailingInput ==
    (BothExportsReturned /\ expInput.fails) =>
        /\ expFirst.result # "nil"
        /\ expResult # "nil"
        /\ written = expFirst.written

\* C37, what the code does: both return an error; the iterator export has
\* stored all m records before the malformed line, the sequence export only
\* the full batches of 1000 among them.
C37_SeqExportDropsPendingBatch ==
    (BothExportsReturned /\ expInput.fails) =>
        /\ expFirst.result # "nil"
        /\ expResult # "nil"
        /\ SumLen(expFirst.written, Len(expFirst.written)) = expInput.count
        /\ SumLen(written, Len(written)) = 1000 * (expInput.count \div 1000)
        /\ written = SubSeq(expFirst.written, 1, Len(written))

\* one good line and a malformed one: the iterator export stored the record
C37_Witness ==
    /\ BothExportsReturned
    /\ expInput = [count |-> 1, fails |-> TRUE]
    /\ expFirst.written = << <<1>> >>
    /\ written = <<>>
    /\ expResult = ErrIteration


\* ---------------------------------------------------------------- shape of the group field
StartsWithMarker(g) ==
    \/ (Len(g) >= 3 /\ g[1] = 126 /\ g[2] = 126 /\ g[3] = 126)
    \/ (Len(g) >= 3 /\ g[1] = 45 /\ g[2] = 45 /\ g[3] = 45)
    \/ (Len(g) >= 3 /\ g[1] = 43 /\ g[2] = 43 /\ g[3] = 43)

\* C38: every record returned by a Parser has a group that is empty or starts
\* with "~~~", "---" or "+++"; once the Parser has parsed a group header, no
\* later record has an empty group.
C38_GroupEmptyOrMarked ==
    \A k \in 1..Len(history) :
        history[k].err = "nil" =>
            /\ (history[k].entry.Group = <<>> \/ StartsWithMarker(history[k].entry.Group))
            /\ \A i \in 1..k :
                   (history[i].err = "nil" /\ StartsWithMarker(StripANSI(history[i].entry.Content)))
                       => history[k].entry.Group # <<>>

\* a plain record before any header, a header whose marker shows only after
\* its colour code is stripped, and a plain record after it
C38_Witness ==
    /\ Len(history) = 3
    /\ history[1].err = "nil" /\ history[1].entry.Group = <<>>
    /\ history[2].err = "nil"
    /\ ~StartsWithMarker(history[2].entry.Content)
    /\ StartsWithMarker(history[2].entry.Group)
    /\ history[3].err = "nil"
    /\ ~StartsWithMarker(StripANSI(history[3].entry.Content))
    /\ history[3].entry.Group = history[2].entry.Group


\* ---------------------------------------------------------------- order of the summaries
\* C39: ListGroups is deterministic: for a fixed input slice it always returns
\* the summaries in the same order, also when two groups have equal FirstSeen.
C39_ListGroupsDeterministic ==
    lgPc = "done" =>
        \A groups \in ListGroups(lgEntries) : groups = lgResult

\* C39, what the code does guarantee: when no two groups have the same
\* FirstSeen the order of the summaries is the only one possible.
C39_DeterministicWithoutTies ==
    (/\ lgPc = "done"
     /\ \A i, j \in 1..Len(lgResult) :
            i # j => lgResult[i].FirstSeen # lgResult[j].FirstSeen)
        => \A groups \in ListGroups(lgEntries) : groups = lgResult

\* two groups whose only entries carry no timestamp, returned with the group
\* of the second entry first
C39_Witness ==
    /\ lgPc = "done"
    /\ Len(lgEntries) = 2 /\ Len(lgResult) = 2
    /\ lgEntries[1].Timestamp = 0 /\ lgEntries[2].Timestamp = 0
    /\ lgEntries[1].Group = <<>> /\ lgEntries[2].Group # <<>>
    /\ lgResult[1].Name = lgEntries[2].Group
    /\ lgResult[1].FirstSeen = lgResult[2].FirstSeen


\* ---------------------------------------------------------------- negative start row
\* C40: SeekToRow with a negative start row is not rejected: no bounds error is
\* yielded and no seek is performed (a file on which seeking fails is read
\* without a seek error), and the iterator yields the same sequence as the
\* full scan of the file from row 0.
C40_NegativeStartRowIsFullScan ==
    skStart < 0 =>
        /\ \A i \in 1..Len(skYielded) :
              /\ skYielded[i].err # "start row is beyond file bounds"
              /\ skYielded[i].err # "failed to seek to row"
        /\ \A n \in 0..(MaxSeekRows + 1) :
              (Len(skYielded) >= n /\ Len(rdYielded) >= n) =>
                  SubSeq(skYielded, 1, n) = SubSeq(rdYielded, 1, n)
        /\ rdPc = "done" => Len(skYielded) <= Len(rdYielded)
        /\ skPc = "done" => Len(rdYielded) <= Len(skYielded)
        /\ (skPc \in {"read", "convert"} /\ skYielded = <<>> /\ skRecord = <<>>)
              => skNext = 0

\* SeekToRow(-1) and the full scan both ran to the end of a two-row file
C40_Witness ==
    /\ file.exists /\ file.fault = "none" /\ Len(file.rows) = 2
    /\ skStart = -1
    /\ skPc = "done" /\ rdPc = "done"
    /\ Len(skYielded) = 2
    /\ skYielded[1].err = "nil" /\ skYielded[2].err = "nil"
    /\ skYielded = rdYielded

\* SeekToRow(-1) on a file with no rows, and on a file on which seeking fails
C40_WitnessEmptyFile ==
    /\ file.exists /\ file.fault = "none" /\ Len(file.rows) = 0
    /\ skStart = -1
    /\ skPc = "done" /\ rdPc = "done"
    /\ skYielded = <<>>

C40_WitnessNoSeek ==
    /\ file.exists /\ file.fault = "seek" /\ Len(file.rows) = 2
    /\ skStart = -1
    /\ skPc = "done"
    /\ Len(skYielded) = 2 /\ skYielded[2].err = "nil"

====
